---- MODULE Spec2Model ----
(***************************************************************************)
(* Booking lifecycle, slot capacity, wallet ledger, promo usage and OTP    *)
(* gate of the home-services API (server/index.js), as a state machine     *)
(* over the persistent store.  One action per HTTP handler; every handler  *)
(* runs to completion (requests one at a time) unless a specification says *)
(* otherwise.                                                              *)
(***************************************************************************)
EXTENDS Integers, Sequences, FiniteSets, TLC

VARIABLES
  profiles,   \* Profile collection: sequence of documents, _id = index
  bookings,   \* Booking collection: sequence of documents, _id = index
  slots,      \* Slot collection: sequence of documents, in store order
  promos,     \* PromoCode collection: sequence of documents
  walletTx,   \* WalletTransaction collection (append-only log)
  otps,       \* OTP collection: phone -> challenge document or NoOtp
  areas,      \* ServiceabilityArea collection
  now,        \* wall clock (Date.now()), in seconds
  response,   \* the last request and the HTTP response it got
  outbox,     \* the notifications the last request handed to the dispatcher
  inflight    \* requests being served step by step: request -> position and locals

vars == <<profiles, bookings, slots, promos, walletTx, otps, areas, now, response,
         outbox, inflight>>

-----------------------------------------------------------------------------
(* Values                                                                  *)

NoId == 0          \* an unset ObjectId reference (employee_id: undefined)
Null == -1         \* an unset Date field

\* BookingSchema.status comment: the seven lifecycle states
BookingStatuses ==
  {"pending", "assigned", "accepted", "reached", "in_progress", "completed", "cancelled"}

\* a raw JSON request value: a number, or something Number() turns into NaN
Num(v) == <<"num", v>>
NotANumber == <<"nan", 0>>

\* Number(x) || 0
NumberOrZero(raw) == IF raw[1] = "num" THEN raw[2] ELSE 0

Max(a, b) == IF a >= b THEN a ELSE b

\* timeSlotMap[timeSlot] || timeSlot
timeSlotMap(t) ==
  CASE t = "morning" -> "09:00-12:00"
    [] t = "afternoon" -> "12:00-15:00"
    [] t = "evening" -> "15:00-18:00"
    [] OTHER -> t

\* String(code).toUpperCase().trim() on the promo codes of the model
NormalizePromo(code) ==
  CASE code = "save10" -> "SAVE10"
    [] code = " SAVE10 " -> "SAVE10"
    [] code = "flat50" -> "FLAT50"
    [] OTHER -> code

DEFAULT_SERVICEABLE_PINCODES == {"273001", "273002", "273003", "273004", "273005"}

\* isServiceable(pincode): an active area lists it, or no active area exists
\* and it is one of the default pincodes
isServiceable(pincode) ==
  IF pincode = "" THEN FALSE
  ELSE LET active == {a \in areas : a.is_active} IN
       IF \E a \in active : pincode \in a.pincodes THEN TRUE
       ELSE IF active = {} THEN pincode \in DEFAULT_SERVICEABLE_PINCODES
       ELSE FALSE

-----------------------------------------------------------------------------
(* Store queries                                                           *)

\* Slot.findOne({service_id, date in the day, time_slot}): first match or 0
FindSlot(service_id, date, time_slot) ==
  LET hits == {i \in 1..Len(slots) :
                 /\ slots[i].service_id = service_id
                 /\ slots[i].date = date
                 /\ slots[i].time_slot = time_slot}
  IN IF hits = {} THEN 0 ELSE CHOOSE i \in hits : \A j \in hits : i <= j

\* PromoCode.findOne({code}): first match or 0
FindPromo(code) ==
  LET hits == {i \in 1..Len(promos) : promos[i].code = code}
  IN IF hits = {} THEN 0 ELSE CHOOSE i \in hits : \A j \in hits : i <= j

\* Booking.countDocuments({employee_id, status: {$in: statuses}}) over bs
CountBookings(bs, employee_id, statuses) ==
  Cardinality({i \in 1..Len(bs) :
                 bs[i].employee_id = employee_id /\ bs[i].status \in statuses})

\* the status sets the handlers pass to countDocuments
ActiveStatuses == {"assigned", "accepted", "reached", "in_progress"}
AssignCountStatuses == {"assigned", "in_progress"}

\* Profile.findByIdAndUpdate(id, {current_jobs}); a missing id updates nothing
SetCurrentJobs(ps, id, n) ==
  IF id \in 1..Len(ps) THEN [ps EXCEPT ![id].current_jobs = n] ELSE ps

\* what the caller sees: the handler, the document it answered about (or 0),
\* the HTTP status and the error code ("ok" on success)
Resp(op, id, status, error) ==
  [op |-> op, id |-> id, status |-> status, error |-> error]

-----------------------------------------------------------------------------
(* POST /bookings                                                          *)

\* express-validator: body('total_price').isFloat({ min: 0 })
ValidTotalPrice(raw) == raw[1] = "num" /\ raw[2] >= 0

\* subtotalAfterDiscount that forgets the discount
subtotalBeforeDiscount(basePrice, addonPrice, discountAmount) ==
  Max(0, basePrice + addonPrice)

\* Math.max(0, basePrice + addonPrice - discountAmount)
subtotalAfterDiscount(basePrice, addonPrice, discountAmount) ==
  Max(0, basePrice + addonPrice - discountAmount)

\* computedTotal that forgets the wallet contribution
computedTotalIgnoringWallet(basePrice, addonPrice, discountAmount, walletAmount) ==
  subtotalAfterDiscount(basePrice, addonPrice, discountAmount)

\* Math.max(0, subtotalAfterDiscount - walletAmount)
computedTotal(basePrice, addonPrice, discountAmount, walletAmount) ==
  Max(0, subtotalAfterDiscount(basePrice, addonPrice, discountAmount) - walletAmount)

\* the document Booking.create stores: the request body with the pricing
\* fields normalised, the total recomputed and status forced to pending
NewBooking(body, basePrice, addonPrice, discountAmount, walletAmount) ==
  LET total == computedTotal(basePrice, addonPrice, discountAmount, walletAmount)
      paidByWallet == walletAmount > 0 /\ total = 0
  IN [customer_id |-> body.customer_id,
      service_id |-> body.service_id,
      employee_id |-> NoId,
      status |-> "pending",
      booking_date |-> body.booking_date,
      booking_time |-> body.booking_time,
      base_price |-> basePrice,
      addon_price |-> addonPrice,
      discount_amount |-> discountAmount,
      wallet_amount |-> walletAmount,
      platform_fee |-> 0,
      total_price |-> total,
      payment_status |-> IF paidByWallet THEN "paid" ELSE body.payment_status,
      payment_method |-> IF paidByWallet THEN "wallet" ELSE body.payment_method,
      customer_pincode |-> body.customer_pincode,
      promo_code |-> body.promo_code,
      assigned_at |-> Null, accepted_at |-> Null, reached_at |-> Null,
      started_at |-> Null, completed_at |-> Null, cancelled_at |-> Null,
      cancelled_by |-> "", cancellation_reason |-> ""]

\* slot.booked_count += 1; is_available = false once full
ReserveSlot(slot) ==
  [slot EXCEPT !.booked_count = @ + 1,
               !.is_available = IF slot.booked_count + 1 >= slot.total_capacity
                                THEN FALSE ELSE @]

\* promo.usage_count = (promo.usage_count || 0) + 1, when the code is found
IncrementPromoUsage(ps, promo_code) ==
  LET k == FindPromo(NormalizePromo(promo_code))
  IN IF promo_code # "" /\ k # 0
     THEN [ps EXCEPT ![k].usage_count = @ + 1]
     ELSE ps

\* customerGate that lets every existing profile through
customerGateAnyProfile(c) ==
  IF c \notin 1..Len(profiles) THEN "customer_not_found" ELSE "ok"

\* the customer lookup and the phone_verified test that precede all writes
customerGate(c) ==
  IF c \notin 1..Len(profiles) THEN "customer_not_found"
  ELSE IF ~profiles[c].phone_verified THEN "phone_not_verified"
  ELSE "ok"

CreateBooking(body) ==
  LET fail(status, error) ==
        /\ inflight' = inflight
        /\ response' = Resp("create_booking", 0, status, error)
        /\ outbox' = <<>>
        /\ UNCHANGED <<profiles, bookings, slots, promos, walletTx, otps, areas, now>>
      basePrice == NumberOrZero(body.base_price)
      addonPrice == NumberOrZero(body.addon_price)
      discountAmount == NumberOrZero(body.discount_amount)
      walletAmount == NumberOrZero(body.wallet_amount)
      subtotal == subtotalAfterDiscount(basePrice, addonPrice, discountAmount)
      k == FindSlot(body.service_id, body.booking_date, timeSlotMap(body.booking_time))
      c == body.customer_id
  IN
  IF ~ValidTotalPrice(body.total_price) THEN fail(400, "validation_failed")
  ELSE IF customerGate(c) = "customer_not_found" THEN fail(404, "customer_not_found")
  ELSE IF customerGate(c) = "phone_not_verified" THEN fail(403, "phone_not_verified")
  ELSE IF k # 0 /\ slots[k].booked_count >= slots[k].total_capacity
    THEN fail(400, "slot_unavailable")
  ELSE IF walletAmount > 0 /\ walletAmount > profiles[c].wallet_balance
    THEN fail(400, "insufficient_wallet_balance")
  ELSE IF walletAmount > 0 /\ walletAmount > subtotal
    THEN fail(400, "invalid_wallet_amount")
  ELSE
    /\ bookings' = Append(bookings,
         NewBooking(body, basePrice, addonPrice, discountAmount, walletAmount))
    /\ IF walletAmount > 0
       THEN /\ profiles' = [profiles EXCEPT ![c].wallet_balance = @ - walletAmount]
            /\ walletTx' = Append(walletTx,
                 [user_id |-> c, amount |-> walletAmount,
                  transaction_type |-> "debit", booking_id |-> Len(bookings) + 1])
       ELSE UNCHANGED <<profiles, walletTx>>
    /\ slots' = IF k # 0 THEN [slots EXCEPT ![k] = ReserveSlot(slots[k])] ELSE slots
    /\ promos' = IncrementPromoUsage(promos, body.promo_code)
    /\ inflight' = inflight
    /\ response' = Resp("create_booking", Len(bookings) + 1, 200, "ok")
    /\ outbox' = <<>>
    /\ UNCHANGED <<otps, areas, now>>

-----------------------------------------------------------------------------
(* services/notifications.js                                               *)

\* sendBookingStatusUpdate that hands nothing to the dispatcher
sendBookingStatusUpdateSilent(bk, id, status, delivered) == <<>>

\* sendBookingStatusUpdate({customer, status, bookingId}), called when the
\* booking's customer is found: one WhatsApp message to the customer's phone
\* (the customers of the model have no email address, so no email is sent);
\* delivered is the provider's result.success, which nothing else depends on
sendBookingStatusUpdate(bk, id, status, delivered) ==
  IF bk.customer_id \in 1..Len(profiles)
  THEN <<[to |-> "customer", user_id |-> bk.customer_id, booking_id |-> id,
          status |-> status, delivered |-> delivered]>>
  ELSE <<>>

\* sendNotification({to: employee.phone, metadata: {type: 'assignment'}})
notifyAssignment(w, id, delivered) ==
  <<[to |-> "employee", user_id |-> w, booking_id |-> id,
     status |-> "assignment", delivered |-> delivered]>>

-----------------------------------------------------------------------------
(* PATCH /bookings/:id/status                                              *)

\* the timestamp the generic update stamps for the submitted status
StampForStatus(bk, status) ==
  CASE status = "accepted" -> [bk EXCEPT !.accepted_at = now]
    [] status = "reached" -> [bk EXCEPT !.reached_at = now]
    [] status = "in_progress" -> [bk EXCEPT !.started_at = now]
    [] status = "completed" -> [bk EXCEPT !.completed_at = now]
    [] OTHER -> bk

\* cash on delivery is settled when the work is completed
CodPaidOnComplete(bk) ==
  IF bk.payment_method = "cod" /\ bk.payment_status = "pending"
  THEN [bk EXCEPT !.payment_status = "paid"] ELSE bk

UpdateStatus(id, status) ==
  IF id \notin 1..Len(bookings)
  THEN /\ inflight' = inflight
       /\ response' = Resp("update_status", id, 404, "not_found")
       /\ outbox' = <<>>
       /\ UNCHANGED <<profiles, bookings, slots, promos, walletTx, otps, areas, now>>
  ELSE
    LET stamped == StampForStatus([bookings[id] EXCEPT !.status = status], status)
        updated == IF status = "completed" THEN CodPaidOnComplete(stamped) ELSE stamped
        bs == [bookings EXCEPT ![id] = updated]
    IN /\ bookings' = bs
       /\ profiles' = IF updated.employee_id # NoId
                      THEN SetCurrentJobs(profiles, updated.employee_id,
                             CountBookings(bs, updated.employee_id, ActiveStatuses))
                      ELSE profiles
       /\ inflight' = inflight
       /\ response' = Resp("update_status", id, 200, "ok")
       /\ \E delivered \in BOOLEAN :
            outbox' = IF bookings[id].status # status
                      THEN sendBookingStatusUpdate(updated, id, status, delivered)
                      ELSE <<>>
       /\ UNCHANGED <<slots, promos, walletTx, otps, areas, now>>

-----------------------------------------------------------------------------
(* PATCH /bookings/:id/auto-assign and PATCH /bookings/:id/assign          *)

WorkerRoles == {"employee", "manager", "lead"}

\* Eligible without the $expr on current_jobs and max_capacity
EligibleIgnoringCapacity(w, service_id) ==
  /\ profiles[w].role \in WorkerRoles
  /\ profiles[w].is_available
  /\ profiles[w].id_verified
  /\ profiles[w].skills_verified
  /\ profiles[w].background_check_status = "approved"
  /\ profiles[w].approval_status = "approved"
  /\ (service_id \in profiles[w].skills \/ profiles[w].skills = {})

\* the Profile.find filter of auto-assign
Eligible(w, service_id) ==
  /\ profiles[w].role \in WorkerRoles
  /\ profiles[w].is_available
  /\ profiles[w].id_verified
  /\ profiles[w].skills_verified
  /\ profiles[w].background_check_status = "approved"
  /\ profiles[w].approval_status = "approved"
  /\ (service_id \in profiles[w].skills \/ profiles[w].skills = {})
  /\ profiles[w].current_jobs < profiles[w].max_capacity

EligibleWorkers(service_id) ==
  {w \in 1..Len(profiles) : Eligible(w, service_id)}

\* locationMatch + ratingScore + experienceScore + workloadScore
priority(w, customerLocation) ==
  (IF profiles[w].location = customerLocation THEN 100 ELSE 0)
  + profiles[w].rating * 10
  + profiles[w].experience_years * 5
  + (profiles[w].max_capacity - profiles[w].current_jobs) * 2

\* bestWorker with an unstable sort: among equal priorities the last wins
bestWorkerLastOnTie(service_id, customerLocation) ==
  LET ws == EligibleWorkers(service_id)
      top == {w \in ws : \A v \in ws :
                priority(w, customerLocation) >= priority(v, customerLocation)}
  IN CHOOSE w \in top : \A v \in top : w >= v

\* workersWithPriority.sort((a, b) => b.priority - a.priority)[0]: the sort
\* is stable, so among equal priorities the first in store order wins
bestWorker(service_id, customerLocation) ==
  LET ws == EligibleWorkers(service_id)
      top == {w \in ws : \A v \in ws :
                priority(w, customerLocation) >= priority(v, customerLocation)}
  IN CHOOSE w \in top : \A v \in top : w <= v

\* {employee_id, status: 'assigned', assigned_at: new Date()}
AssignTo(bk, w) ==
  [bk EXCEPT !.employee_id = w, !.status = "assigned", !.assigned_at = now]

AutoAssign(id) ==
  LET fail(status, error) ==
        /\ inflight' = inflight
        /\ response' = Resp("auto_assign", id, status, error)
        /\ outbox' = <<>>
        /\ UNCHANGED <<profiles, bookings, slots, promos, walletTx, otps, areas, now>>
  IN
  IF id \notin 1..Len(bookings) THEN fail(404, "not_found")
  ELSE IF bookings[id].employee_id # NoId THEN fail(400, "already_assigned")
  ELSE IF EligibleWorkers(bookings[id].service_id) = {} THEN fail(404, "no_eligible_workers")
  ELSE
    LET w == bestWorker(bookings[id].service_id, bookings[id].customer_pincode)
        bs == [bookings EXCEPT ![id] = AssignTo(bookings[id], w)]
    IN /\ bookings' = bs
       /\ profiles' = SetCurrentJobs(profiles, w, CountBookings(bs, w, AssignCountStatuses))
       /\ inflight' = inflight
       /\ response' = Resp("auto_assign", id, 200, "ok")
       /\ \E delivered \in BOOLEAN, reached \in BOOLEAN :
            outbox' = sendBookingStatusUpdate(bs[id], id, "assigned", delivered)
                      \o notifyAssignment(w, id, reached)
       /\ UNCHANGED <<slots, promos, walletTx, otps, areas, now>>

\* WorkerVerified that looks at the identity check alone
WorkerVerifiedIdOnly(w) == profiles[w].id_verified

\* the verification predicate of manual assign
WorkerVerified(w) ==
  /\ profiles[w].id_verified
  /\ profiles[w].skills_verified
  /\ profiles[w].background_check_status = "approved"
  /\ profiles[w].approval_status = "approved"

Assign(id, employee_id) ==
  LET fail(status, error) ==
        /\ inflight' = inflight
        /\ response' = Resp("assign", id, status, error)
        /\ outbox' = <<>>
        /\ UNCHANGED <<profiles, bookings, slots, promos, walletTx, otps, areas, now>>
  IN
  IF employee_id = NoId THEN fail(400, "employee_id_required")
  ELSE IF employee_id \notin 1..Len(profiles) THEN fail(404, "worker_not_found")
  ELSE IF ~WorkerVerified(employee_id) THEN fail(400, "worker_not_verified")
  ELSE IF id \notin 1..Len(bookings) THEN fail(404, "not_found")
  ELSE
    LET bs == [bookings EXCEPT ![id] = AssignTo(bookings[id], employee_id)]
    IN /\ bookings' = bs
       /\ profiles' = SetCurrentJobs(profiles, employee_id,
                        CountBookings(bs, employee_id, AssignCountStatuses))
       /\ inflight' = inflight
       /\ response' = Resp("assign", id, 200, "ok")
       /\ \E delivered \in BOOLEAN, reached \in BOOLEAN :
            outbox' = sendBookingStatusUpdate(bs[id], id, "assigned", delivered)
                      \o notifyAssignment(employee_id, id, reached)
       /\ UNCHANGED <<slots, promos, walletTx, otps, areas, now>>

-----------------------------------------------------------------------------
(* PATCH /bookings/:id/cancel and PATCH /bookings/:id/reschedule           *)

\* ReleaseSlot without the booked_count > 0 guard
ReleaseSlotNoFloor(ss, k) ==
  IF k # 0
  THEN [ss EXCEPT ![k].booked_count = @ - 1, ![k].is_available = TRUE]
  ELSE ss

\* ReleaseSlot that leaves the slot as it is
ReleaseSlotSkipped(ss, k) == ss

\* slot.booked_count -= 1; slot.is_available = true, when booked_count > 0
ReleaseSlot(ss, k) ==
  IF k # 0 /\ ss[k].booked_count > 0
  THEN [ss EXCEPT ![k].booked_count = @ - 1, ![k].is_available = TRUE]
  ELSE ss

\* cancelGuard that blocks completed bookings only
cancelGuardCompletedOnly(status) ==
  IF status = "completed" THEN "cannot_cancel_completed" ELSE "ok"

\* the two status checks of cancel, which precede every write
cancelGuard(status) ==
  IF status = "completed" THEN "cannot_cancel_completed"
  ELSE IF status = "cancelled" THEN "already_cancelled"
  ELSE "ok"

Cancel(id, reason, cancelled_by) ==
  LET fail(status, error) ==
        /\ inflight' = inflight
        /\ response' = Resp("cancel", id, status, error)
        /\ outbox' = <<>>
        /\ UNCHANGED <<profiles, bookings, slots, promos, walletTx, otps, areas, now>>
  IN
  IF id \notin 1..Len(bookings) THEN fail(404, "not_found")
  ELSE IF cancelGuard(bookings[id].status) # "ok"
    THEN fail(400, cancelGuard(bookings[id].status))
  ELSE
    LET bk == bookings[id]
        k == FindSlot(bk.service_id, bk.booking_date, timeSlotMap(bk.booking_time))
    IN /\ slots' = ReleaseSlot(slots, k)
       \* the count runs before booking.save(), on the stored bookings
       /\ profiles' = IF bk.employee_id # NoId
                      THEN SetCurrentJobs(profiles, bk.employee_id,
                             CountBookings(bookings, bk.employee_id, AssignCountStatuses))
                      ELSE profiles
       /\ bookings' = [bookings EXCEPT ![id] =
            [bk EXCEPT !.status = "cancelled",
                       !.cancelled_at = now,
                       !.cancellation_reason = IF reason = "" THEN "No reason provided" ELSE reason,
                       !.cancelled_by = IF cancelled_by = "" THEN "customer" ELSE cancelled_by]]
       /\ inflight' = inflight
       /\ response' = Resp("cancel", id, 200, "ok")
       /\ outbox' = <<>>
       /\ UNCHANGED <<promos, walletTx, otps, areas, now>>

\* rescheduleGuard that blocks completed bookings only
rescheduleGuardCompletedOnly(status) ==
  IF status = "completed" THEN "cannot_reschedule_completed" ELSE "ok"

\* the two status checks of reschedule, which precede every write
rescheduleGuard(status) ==
  IF status = "completed" THEN "cannot_reschedule_completed"
  ELSE IF status = "cancelled" THEN "cannot_reschedule_cancelled"
  ELSE "ok"

Reschedule(id, booking_date, booking_time) ==
  LET fail(status, error) ==
        /\ inflight' = inflight
        /\ response' = Resp("reschedule", id, status, error)
        /\ outbox' = <<>>
        /\ UNCHANGED <<profiles, bookings, slots, promos, walletTx, otps, areas, now>>
  IN
  IF id \notin 1..Len(bookings) THEN fail(404, "not_found")
  ELSE IF rescheduleGuard(bookings[id].status) # "ok"
    THEN fail(400, rescheduleGuard(bookings[id].status))
  ELSE IF ~isServiceable(bookings[id].customer_pincode) THEN fail(400, "service_not_available")
  ELSE
    LET bk == bookings[id]
        kOld == FindSlot(bk.service_id, bk.booking_date, timeSlotMap(bk.booking_time))
        \* the old slot is released and saved before the new slot is read
        released == ReleaseSlot(slots, kOld)
        kNew == FindSlot(bk.service_id, booking_date, timeSlotMap(booking_time))
    IN IF kNew # 0 /\ released[kNew].booked_count >= released[kNew].total_capacity
       THEN /\ slots' = released
            /\ inflight' = inflight
            /\ response' = Resp("reschedule", id, 400, "slot_unavailable")
            /\ outbox' = <<>>
            /\ UNCHANGED <<profiles, bookings, promos, walletTx, otps, areas, now>>
       ELSE /\ slots' = IF kNew # 0
                        THEN [released EXCEPT ![kNew] = ReserveSlot(released[kNew])]
                        ELSE released
            /\ bookings' = [bookings EXCEPT ![id] =
                 [bk EXCEPT !.booking_date = booking_date,
                            !.booking_time = booking_time,
                            !.status = IF bk.status = "assigned" THEN "pending" ELSE bk.status]]
            /\ inflight' = inflight
            /\ response' = Resp("reschedule", id, 200, "ok")
            /\ outbox' = <<>>
            /\ UNCHANGED <<profiles, promos, walletTx, otps, areas, now>>

-----------------------------------------------------------------------------
(* POST /bookings/:id/accept | mark-reached | start-work | complete        *)

\* the workflow guard that lets completed bookings through
workflowBlockedCancelledOnly(status) == status \in {"cancelled"}

\* ['cancelled', 'completed'].includes(booking.status): the one check that
\* accept, mark-reached and start-work make on the current status
workflowBlocked(status) == status \in {"cancelled", "completed"}

Accept(id) ==
  IF id \notin 1..Len(bookings)
  THEN /\ inflight' = inflight
       /\ response' = Resp("accept", id, 404, "not_found")
       /\ outbox' = <<>>
       /\ UNCHANGED <<profiles, bookings, slots, promos, walletTx, otps, areas, now>>
  ELSE IF workflowBlocked(bookings[id].status)
  THEN /\ inflight' = inflight
       /\ response' = Resp("accept", id, 400, "invalid_status")
       /\ outbox' = <<>>
       /\ UNCHANGED <<profiles, bookings, slots, promos, walletTx, otps, areas, now>>
  ELSE /\ bookings' = [bookings EXCEPT ![id].status = "accepted", ![id].accepted_at = now]
       /\ inflight' = inflight
       /\ response' = Resp("accept", id, 200, "ok")
       /\ \E delivered \in BOOLEAN :
            outbox' = sendBookingStatusUpdate(bookings[id], id, "accepted", delivered)
       /\ UNCHANGED <<profiles, slots, promos, walletTx, otps, areas, now>>

MarkReached(id) ==
  IF id \notin 1..Len(bookings)
  THEN /\ inflight' = inflight
       /\ response' = Resp("mark_reached", id, 404, "not_found")
       /\ outbox' = <<>>
       /\ UNCHANGED <<profiles, bookings, slots, promos, walletTx, otps, areas, now>>
  ELSE IF workflowBlocked(bookings[id].status)
  THEN /\ inflight' = inflight
       /\ response' = Resp("mark_reached", id, 400, "invalid_status")
       /\ outbox' = <<>>
       /\ UNCHANGED <<profiles, bookings, slots, promos, walletTx, otps, areas, now>>
  ELSE /\ bookings' = [bookings EXCEPT ![id].status = "reached", ![id].reached_at = now]
       /\ inflight' = inflight
       /\ response' = Resp("mark_reached", id, 200, "ok")
       /\ \E delivered \in BOOLEAN :
            outbox' = sendBookingStatusUpdate(bookings[id], id, "reached", delivered)
       /\ UNCHANGED <<profiles, slots, promos, walletTx, otps, areas, now>>

StartWork(id) ==
  IF id \notin 1..Len(bookings)
  THEN /\ inflight' = inflight
       /\ response' = Resp("start_work", id, 404, "not_found")
       /\ outbox' = <<>>
       /\ UNCHANGED <<profiles, bookings, slots, promos, walletTx, otps, areas, now>>
  ELSE IF workflowBlocked(bookings[id].status)
  THEN /\ inflight' = inflight
       /\ response' = Resp("start_work", id, 400, "invalid_status")
       /\ outbox' = <<>>
       /\ UNCHANGED <<profiles, bookings, slots, promos, walletTx, otps, areas, now>>
  ELSE /\ bookings' = [bookings EXCEPT ![id].status = "in_progress", ![id].started_at = now]
       /\ inflight' = inflight
       /\ response' = Resp("start_work", id, 200, "ok")
       /\ \E delivered \in BOOLEAN :
            outbox' = sendBookingStatusUpdate(bookings[id], id, "in_progress", delivered)
       /\ UNCHANGED <<profiles, slots, promos, walletTx, otps, areas, now>>

Complete(id) ==
  IF id \notin 1..Len(bookings)
  THEN /\ inflight' = inflight
       /\ response' = Resp("complete", id, 404, "not_found")
       /\ outbox' = <<>>
       /\ UNCHANGED <<profiles, bookings, slots, promos, walletTx, otps, areas, now>>
  ELSE IF bookings[id].status \in {"cancelled"}
  THEN /\ inflight' = inflight
       /\ response' = Resp("complete", id, 400, "invalid_status")
       /\ outbox' = <<>>
       /\ UNCHANGED <<profiles, bookings, slots, promos, walletTx, otps, areas, now>>
  ELSE
    LET done == CodPaidOnComplete(
                  [bookings[id] EXCEPT !.status = "completed", !.completed_at = now])
        bs == [bookings EXCEPT ![id] = done]
    IN /\ bookings' = bs
       /\ profiles' = IF done.employee_id # NoId
                      THEN SetCurrentJobs(profiles, done.employee_id,
                             CountBookings(bs, done.employee_id, ActiveStatuses))
                      ELSE profiles
       /\ inflight' = inflight
       /\ response' = Resp("complete", id, 200, "ok")
       /\ \E delivered \in BOOLEAN :
            outbox' = sendBookingStatusUpdate(done, id, "completed", delivered)
       /\ UNCHANGED <<slots, promos, walletTx, otps, areas, now>>

-----------------------------------------------------------------------------
(* POST /payments/verify and POST /payments/webhook (gateway configured)   *)

\* payment_status = 'paid'; status = 'confirmed'
MarkPaid(bk) == [bk EXCEPT !.payment_status = "paid", !.status = "confirmed"]

\* signatureOk: the HMAC of order|payment matches; paymentStatus and
\* paidAmount are what the gateway reports for the payment
VerifyPayment(id, signatureOk, paymentStatus, paidAmount) ==
  LET fail(status, error) ==
        /\ inflight' = inflight
        /\ response' = Resp("verify_payment", id, status, error)
        /\ outbox' = <<>>
        /\ UNCHANGED <<profiles, bookings, slots, promos, walletTx, otps, areas, now>>
  IN
  IF id \notin 1..Len(bookings) THEN fail(404, "booking_not_found")
  ELSE IF ~signatureOk THEN fail(400, "invalid_signature")
  ELSE IF paymentStatus \notin {"captured", "authorized"} THEN fail(400, "payment_not_captured")
  ELSE IF paidAmount # bookings[id].total_price THEN fail(400, "amount_mismatch")
  ELSE /\ bookings' = [bookings EXCEPT ![id] = MarkPaid(bookings[id])]
       /\ inflight' = inflight
       /\ response' = Resp("verify_payment", id, 200, "ok")
       /\ outbox' = <<>>
       /\ UNCHANGED <<profiles, slots, promos, walletTx, otps, areas, now>>

\* the handler reads payload.payment.entity.payment: entityHasPayment says
\* whether the signed event carries that field (without it the handler throws)
PaymentWebhook(id, signatureOk, eventType, entityHasPayment) ==
  LET reply(status, error) ==
        /\ inflight' = inflight
        /\ response' = Resp("payment_webhook", id, status, error)
        /\ outbox' = <<>>
        /\ UNCHANGED <<profiles, bookings, slots, promos, walletTx, otps, areas, now>>
  IN
  IF ~signatureOk THEN reply(400, "invalid_signature")
  ELSE IF eventType \notin {"payment.captured", "payment.failed"} THEN reply(200, "ok")
  ELSE IF ~entityHasPayment THEN reply(500, "webhook_error")
  ELSE IF id \notin 1..Len(bookings) THEN reply(200, "ok")
  ELSE /\ bookings' = [bookings EXCEPT ![id] =
            IF eventType = "payment.captured"
            THEN MarkPaid(bookings[id])
            ELSE [bookings[id] EXCEPT !.payment_status = "pending"]]
       /\ inflight' = inflight
       /\ response' = Resp("payment_webhook", id, 200, "ok")
       /\ outbox' = <<>>
       /\ UNCHANGED <<profiles, slots, promos, walletTx, otps, areas, now>>

-----------------------------------------------------------------------------
(* POST /wallet/transactions (admin)                                       *)

TransactionTypes == {"credit", "debit", "refund"}

\* newBalance that treats a refund as money coming back to the wallet
newBalanceRefundAdds(balance, transaction_type, amountNum) ==
  IF transaction_type \in {"credit", "refund"} THEN balance + amountNum ELSE balance - amountNum

\* the balance the handler computes; debit and refund both subtract
newBalance(balance, transaction_type, amountNum) ==
  IF transaction_type = "credit" THEN balance + amountNum ELSE balance - amountNum

AddWalletTransaction(user_id, amount, transaction_type) ==
  LET fail(status, error) ==
        /\ inflight' = inflight
        /\ response' = Resp("wallet_transaction", 0, status, error)
        /\ outbox' = <<>>
        /\ UNCHANGED <<profiles, bookings, slots, promos, walletTx, otps, areas, now>>
      amountNum == NumberOrZero(amount)
  IN
  IF user_id = NoId \/ amount = Num(0) THEN fail(400, "validation_failed")
  ELSE IF transaction_type \notin TransactionTypes THEN fail(400, "validation_failed")
  ELSE IF amount[1] # "num" \/ amountNum <= 0 THEN fail(400, "validation_failed")
  ELSE IF user_id \notin 1..Len(profiles) THEN fail(404, "user_not_found")
  ELSE IF /\ transaction_type \in {"debit", "refund"}
          /\ newBalance(profiles[user_id].wallet_balance, transaction_type, amountNum) < 0
    THEN fail(400, "insufficient_balance")
  ELSE /\ walletTx' = Append(walletTx,
            [user_id |-> user_id, amount |-> amountNum,
             transaction_type |-> transaction_type, booking_id |-> NoId])
       /\ profiles' = [profiles EXCEPT ![user_id].wallet_balance =
            newBalance(@, transaction_type, amountNum)]
       /\ inflight' = inflight
       /\ response' = Resp("wallet_transaction", 0, 200, "ok")
       /\ outbox' = <<>>
       /\ UNCHANGED <<bookings, slots, promos, otps, areas, now>>

-----------------------------------------------------------------------------
(* POST /auth/request-otp, POST /auth/verify-otp, OTP time-to-live index   *)

NoOtp == [present |-> FALSE]

OTP_RESEND_MS == 45       \* 45_000 ms, in seconds
OTP_VALIDITY == 300       \* 5 * 60 * 1000 ms, in seconds
MAX_OTP_ATTEMPTS == 5

\* crypto.createHash('sha256').update(code).digest('hex'): collision-free on
\* the codes of the model
hashCode(code) == <<"sha256", code>>

\* the challenge request-otp upserts for the phone
NewChallenge(code) ==
  [present |-> TRUE, code_hash |-> hashCode(code), expires_at |-> now + OTP_VALIDITY,
   attempts |-> 0, last_sent_at |-> now, purpose |-> "login"]

\* a resend check that never limits
otpRateLimitedNever(existing) == FALSE

\* existing && existing.last_sent_at && Date.now() - last_sent_at < 45_000
otpRateLimited(existing) ==
  existing.present /\ now - existing.last_sent_at < OTP_RESEND_MS

\* sendOTPViaMSG91WhatsApp(phone, code): the code handed to the WhatsApp
\* provider; it catches every error and returns {success: delivered}
sendOTPViaMSG91WhatsApp(delivered) ==
  <<[to |-> "phone", user_id |-> NoId, booking_id |-> NoId,
     status |-> "otp", delivered |-> delivered]>>

\* an answer that reports a failed dispatch to the caller
requestOtpReplyFailing(delivered) ==
  IF delivered THEN Resp("request_otp", 0, 200, "ok")
  ELSE Resp("request_otp", 0, 500, "otp_request_failed")

\* if (!otpResult.success) console.warn(...) -- still return success:
\* res.json({success: true}) whatever the dispatch returned
requestOtpReply(delivered) == Resp("request_otp", 0, 200, "ok")

\* delivered: whether the WhatsApp dispatch of the code succeeded
RequestOtp(phone, code, delivered) ==
  IF otpRateLimited(otps[phone])
  THEN /\ inflight' = inflight
       /\ response' = Resp("request_otp", 0, 429, "otp_rate_limited")
       /\ outbox' = <<>>
       /\ UNCHANGED <<profiles, bookings, slots, promos, walletTx, otps, areas, now>>
  ELSE /\ otps' = [otps EXCEPT ![phone] = NewChallenge(code)]
       /\ inflight' = inflight
       /\ response' = requestOtpReply(delivered)
       /\ outbox' = sendOTPViaMSG91WhatsApp(delivered)
       /\ UNCHANGED <<profiles, bookings, slots, promos, walletTx, areas, now>>

\* Profile.findOne({phone}): first match or 0
FindProfileByPhone(phone) ==
  LET hits == {i \in 1..Len(profiles) : profiles[i].phone = phone}
  IN IF hits = {} THEN 0 ELSE CHOOSE i \in hits : \A j \in hits : i <= j

\* Profile.create({phone, role, phone_verified: true}) with the schema defaults
NewProfile(phone, role) ==
  [phone |-> phone, role |-> role, phone_verified |-> TRUE, wallet_balance |-> 0,
   password_hash |-> "",
   id_verified |-> FALSE, skills_verified |-> FALSE,
   background_check_status |-> "pending", approval_status |-> "pending",
   is_available |-> TRUE, max_capacity |-> 5, current_jobs |-> 0,
   rating |-> 0, experience_years |-> 0, location |-> "", skills |-> {}]

\* OtpGate without the attempts check
OtpGateNoAttemptCap(phone) ==
  IF ~otps[phone].present THEN "otp_not_found"
  ELSE IF otps[phone].expires_at < now THEN "otp_expired"
  ELSE "ok"

\* the checks verify-otp and reset-password make before comparing the code
OtpGate(phone) ==
  IF ~otps[phone].present THEN "otp_not_found"
  ELSE IF otps[phone].expires_at < now THEN "otp_expired"
  ELSE IF otps[phone].attempts >= MAX_OTP_ATTEMPTS THEN "otp_attempts_exceeded"
  ELSE "ok"

\* a verify-otp success that leaves the challenge in the store
ConsumeChallengeKept(os, phone) == os

\* OTP.deleteOne({ _id: otp._id }) on a matching code
ConsumeChallenge(os, phone) == [os EXCEPT ![phone] = NoOtp]

VerifyOtp(phone, code, requestedRole) ==
  LET gate == OtpGate(phone)
  IN
  IF gate # "ok"
  THEN /\ inflight' = inflight
       /\ response' = Resp("verify_otp", 0,
                           IF gate = "otp_attempts_exceeded" THEN 429 ELSE 400, gate)
       /\ outbox' = <<>>
       /\ UNCHANGED <<profiles, bookings, slots, promos, walletTx, otps, areas, now>>
  ELSE IF hashCode(code) # otps[phone].code_hash
  THEN /\ otps' = [otps EXCEPT ![phone].attempts = @ + 1]
       /\ inflight' = inflight
       /\ response' = Resp("verify_otp", 0, 400, "otp_invalid")
       /\ outbox' = <<>>
       /\ UNCHANGED <<profiles, bookings, slots, promos, walletTx, areas, now>>
  ELSE
    LET p == FindProfileByPhone(phone) IN
    /\ otps' = ConsumeChallenge(otps, phone)
    /\ profiles' = IF p = 0 THEN Append(profiles, NewProfile(phone, requestedRole))
                   ELSE [profiles EXCEPT ![p].phone_verified = TRUE]
    /\ inflight' = inflight
    /\ response' = Resp("verify_otp", IF p = 0 THEN Len(profiles) + 1 ELSE p, 200, "ok")
    /\ outbox' = <<>>
    /\ UNCHANGED <<bookings, slots, promos, walletTx, areas, now>>

\* the TTL index on expires_at (expireAfterSeconds: 0): the store deletes a
\* challenge at some moment after it has expired
ExpireOtp(phone) ==
  /\ otps[phone].present
  /\ otps[phone].expires_at < now
  /\ otps' = [otps EXCEPT ![phone] = NoOtp]
  /\ UNCHANGED <<profiles, bookings, slots, promos, walletTx, areas, now, response, outbox, inflight>>

\* time passes
Tick(d) ==
  /\ now' = now + d
  /\ UNCHANGED <<profiles, bookings, slots, promos, walletTx, otps, areas, response, outbox, inflight>>

-----------------------------------------------------------------------------
(* Stored documents and request bodies the specifications start from       *)

Customer(phone, phone_verified, wallet_balance) ==
  [phone |-> phone, role |-> "customer", phone_verified |-> phone_verified,
   wallet_balance |-> wallet_balance, password_hash |-> "",
   id_verified |-> FALSE, skills_verified |-> FALSE,
   background_check_status |-> "pending", approval_status |-> "pending",
   is_available |-> TRUE, max_capacity |-> 5, current_jobs |-> 0,
   rating |-> 0, experience_years |-> 0, location |-> "", skills |-> {}]

\* a worker profile that passes every verification check
Worker(phone, location, max_capacity) ==
  [phone |-> phone, role |-> "employee", phone_verified |-> TRUE, password_hash |-> "",
   wallet_balance |-> 0,
   id_verified |-> TRUE, skills_verified |-> TRUE,
   background_check_status |-> "approved", approval_status |-> "approved",
   is_available |-> TRUE, max_capacity |-> max_capacity, current_jobs |-> 0,
   rating |-> 4, experience_years |-> 2, location |-> location, skills |-> {}]

SlotDoc(service_id, date, time_slot, total_capacity) ==
  [service_id |-> service_id, date |-> date, time_slot |-> time_slot,
   total_capacity |-> total_capacity, booked_count |-> 0, is_available |-> TRUE]

PromoDoc(code, max_usage) ==
  [code |-> code, is_active |-> TRUE, usage_count |-> 0, max_usage |-> max_usage]

Body(customer_id, booking_date, booking_time, customer_pincode) ==
  [customer_id |-> customer_id, service_id |-> 1,
   booking_date |-> booking_date, booking_time |-> booking_time,
   base_price |-> Num(100), addon_price |-> Num(0), discount_amount |-> Num(0),
   wallet_amount |-> Num(0), total_price |-> Num(100), promo_code |-> "",
   payment_method |-> "online", payment_status |-> "unpaid",
   customer_pincode |-> customer_pincode]

Phones == {"9000000001", "9000000002"}

NoResponse == Resp("none", 0, 0, "none")

-----------------------------------------------------------------------------
(* SpecSlots: bookings against capacity-limited slots, one request at a    *)
(* time: create, cancel, reschedule                                        *)

MaxBookings == 3       \* bookings created in one behaviour
MaxCapacity == 2       \* total_capacity of a slot ranges over 1..MaxCapacity

SlotTimes == {"morning", "09:00-12:00", "evening"}
SlotDays == {1}
SlotPincodes == {"273001"}

InitSlots ==
  /\ profiles = <<Customer("9000000001", TRUE, 0), Customer("9000000002", FALSE, 0)>>
  /\ bookings = <<>>
  /\ \E c1 \in 1..MaxCapacity :
       slots = <<SlotDoc(1, 1, "09:00-12:00", c1), SlotDoc(1, 1, "15:00-18:00", 1)>>
  /\ promos = <<>>
  /\ walletTx = <<>>
  /\ otps = [p \in Phones |-> NoOtp]
  /\ areas = {}
  /\ now = 0
  /\ response = NoResponse
  /\ outbox = <<>>
  /\ inflight = <<>>

SlotBodies ==
  {Body(c, d, t, pin) : c \in {1, 2}, d \in SlotDays, t \in SlotTimes, pin \in SlotPincodes}

CreateInSlots == \E body \in SlotBodies : Len(bookings) < MaxBookings /\ CreateBooking(body)
CancelInSlots == \E id \in 1..Len(bookings) : Cancel(id, "", "")
RescheduleInSlots ==
  \E id \in 1..Len(bookings), d \in SlotDays, t \in SlotTimes : Reschedule(id, d, t)

NextSlots == CreateInSlots \/ CancelInSlots \/ RescheduleInSlots

SpecSlots == InitSlots /\ [][NextSlots]_vars

\* the slot a booking document points at (0: none)
SlotOf(bk) == FindSlot(bk.service_id, bk.booking_date, timeSlotMap(bk.booking_time))

\* C2: every slot changed only by create-booking, cancel and reschedule keeps
\* 0 <= booked_count <= total_capacity
C2_SlotCountWithinCapacity ==
  \A k \in 1..Len(slots) :
    /\ 0 <= slots[k].booked_count
    /\ slots[k].booked_count <= slots[k].total_capacity

\* a slot is full, has been released to empty by cancels, and is full again
C2_Witness ==
  /\ \E k \in 1..Len(slots) : slots[k].booked_count = slots[k].total_capacity
  /\ \E i \in 1..Len(bookings) : bookings[i].status = "cancelled" /\ SlotOf(bookings[i]) # 0
  /\ response.op = "reschedule" /\ response.status = 200

\* a create-booking request that passes validation and the customer gate and
\* pays nothing from the wallet
PlainRequest(body) ==
  /\ ValidTotalPrice(body.total_price)
  /\ body.customer_id \in 1..Len(profiles)
  /\ profiles[body.customer_id].phone_verified
  /\ NumberOrZero(body.wallet_amount) <= 0

\* C10: create-booking (by a verified customer) for a slot with
\* booked_count >= total_capacity fails with slot_unavailable and creates no
\* booking; cancelling a booking that holds the full slot frees one unit; and
\* the create-booking that follows that cancel, for the same slot, succeeds
\* and puts booked_count back to the value it had before the cancel
C10_FullSlotRejectsUntilCancel ==
  [][/\ \A body \in SlotBodies :
          LET k == SlotOf(body) IN
          (CreateBooking(body) /\ PlainRequest(body) /\ k # 0) =>
            /\ slots[k].booked_count >= slots[k].total_capacity =>
                 /\ response'.error = "slot_unavailable"
                 /\ bookings' = bookings
                 /\ slots' = slots
            /\ ( /\ response.op = "cancel" /\ response.status = 200
                 /\ SlotOf(bookings[response.id]) = k
                 /\ slots[k].booked_count + 1 >= slots[k].total_capacity ) =>
                 /\ response'.status = 200
                 /\ Len(bookings') = Len(bookings) + 1
                 /\ slots'[k].booked_count = slots[k].booked_count + 1
     /\ \A id \in 1..Len(bookings) :
          LET k == SlotOf(bookings[id]) IN
          ( /\ Cancel(id, "", "") /\ response'.status = 200
            /\ k # 0 /\ slots[k].booked_count >= slots[k].total_capacity ) =>
            slots'[k].booked_count = slots[k].booked_count - 1
    ]_vars

\* a create-booking was refused on a full slot, a holder of a slot was then
\* cancelled, and a create-booking has succeeded and filled a slot again
C10_Witness ==
  /\ response.op = "create_booking" /\ response.status = 200
  /\ LET k == SlotOf(bookings[response.id]) IN
       /\ k # 0
       /\ slots[k].booked_count = slots[k].total_capacity
       /\ \E i \in 1..Len(bookings) :
            /\ i < response.id
            /\ bookings[i].status = "cancelled"
            /\ SlotOf(bookings[i]) = k

-----------------------------------------------------------------------------
(* SpecPricing: create-booking under every combination of submitted        *)
(* pricing fields                                                          *)

MaxPricedBookings == 2     \* bookings created in one behaviour

BasePrices == {Num(100), Num(-50), NotANumber}
AddonPrices == {Num(0), Num(40)}
DiscountAmounts == {Num(30), Num(400), Num(-10)}
WalletAmounts == {Num(0), Num(50), Num(-20), Num(120)}
ClientTotals == {Num(999), Num(-1)}

PricingBodies ==
  {[Body(1, 1, "afternoon", "273001") EXCEPT
      !.base_price = b, !.addon_price = a, !.discount_amount = d,
      !.wallet_amount = w, !.total_price = t] :
     b \in BasePrices, a \in AddonPrices, d \in DiscountAmounts,
     w \in WalletAmounts, t \in ClientTotals}

InitPricing ==
  /\ profiles = <<Customer("9000000001", TRUE, 100)>>
  /\ bookings = <<>>
  /\ slots = <<>>
  /\ promos = <<>>
  /\ walletTx = <<>>
  /\ otps = [p \in Phones |-> NoOtp]
  /\ areas = {}
  /\ now = 0
  /\ response = NoResponse
  /\ outbox = <<>>
  /\ inflight = <<>>

CreateInPricing ==
  \E body \in PricingBodies : Len(bookings) < MaxPricedBookings /\ CreateBooking(body)

NextPricing == CreateInPricing

SpecPricing == InitPricing /\ [][NextPricing]_vars

\* C3: every stored booking has total_price =
\* max(0, base_price + addon_price - discount_amount) - wallet_amount >= 0;
\* the total is a function of the stored components alone, so the total the
\* client submitted has no part in it
C3_StoredTotalIsComputed ==
  \A i \in 1..Len(bookings) :
    LET bk == bookings[i] IN
    /\ bk.total_price =
         Max(0, bk.base_price + bk.addon_price - bk.discount_amount) - bk.wallet_amount
    /\ bk.total_price >= 0

\* a stored booking with a discount and a wallet part whose total differs
\* from every total a client can submit
C3_Witness ==
  \E i \in 1..Len(bookings) :
    /\ bookings[i].discount_amount > 0
    /\ bookings[i].wallet_amount > 0
    /\ bookings[i].total_price > 0
    /\ Num(bookings[i].total_price) \notin ClientTotals
    /\ response.op = "create_booking" /\ response.status = 200

-----------------------------------------------------------------------------
(* SpecWallet: wallet-paid bookings and admin wallet transactions, one     *)
(* request at a time, from balance 0 and an empty log                      *)

MaxTx == 3                 \* wallet transactions written in one behaviour
MaxWalletBookings == 2     \* bookings created in one behaviour

WalletUsers == {1, 2, 3}                  \* 3 is not a stored profile
TxAmounts == {Num(50), Num(80), Num(0), NotANumber}
TxTypes == {"credit", "debit", "refund", "bonus"}
WalletBodies ==
  {[Body(c, 1, "afternoon", "273001") EXCEPT !.wallet_amount = w] :
     c \in {1, 2}, w \in {Num(0), Num(50), Num(120)}}

InitWallet ==
  /\ profiles = <<Customer("9000000001", TRUE, 0), Customer("9000000002", TRUE, 0)>>
  /\ bookings = <<>>
  /\ slots = <<>>
  /\ promos = <<>>
  /\ walletTx = <<>>
  /\ otps = [p \in Phones |-> NoOtp]
  /\ areas = {}
  /\ now = 0
  /\ response = NoResponse
  /\ outbox = <<>>
  /\ inflight = <<>>

CreateInWallet ==
  \E body \in WalletBodies :
    /\ Len(bookings) < MaxWalletBookings
    /\ Len(walletTx) < MaxTx
    /\ CreateBooking(body)

TransactInWallet ==
  \E u \in WalletUsers, a \in TxAmounts, t \in TxTypes :
    /\ Len(walletTx) < MaxTx
    /\ AddWalletTransaction(u, a, t)

NextWallet == CreateInWallet \/ TransactInWallet

SpecWallet == InitWallet /\ [][NextWallet]_vars

\* the signed sum of a user's transactions: credit +, debit and refund -
RECURSIVE SignedSum(_, _)
SignedSum(log, user_id) ==
  IF log = <<>> THEN 0
  ELSE LET tx == Head(log)
           signed == IF tx.user_id # user_id THEN 0
                     ELSE IF tx.transaction_type = "credit" THEN tx.amount
                     ELSE 0 - tx.amount
       IN signed + SignedSum(Tail(log), user_id)

\* C4: every user's wallet_balance equals credits minus debits and refunds
\* and is never negative; a wallet-paid create-booking or an admin debit or
\* refund that would overdraw is rejected and writes nothing
C4_BalanceIsSignedSum ==
  /\ [](\A u \in 1..Len(profiles) :
          /\ profiles[u].wallet_balance = SignedSum(walletTx, u)
          /\ profiles[u].wallet_balance >= 0)
  /\ [][/\ \A u \in 1..Len(profiles), a \in TxAmounts, t \in {"debit", "refund"} :
             (AddWalletTransaction(u, a, t) /\ NumberOrZero(a) > profiles[u].wallet_balance) =>
               /\ response'.status = 400
               /\ UNCHANGED <<walletTx, profiles>>
        /\ \A body \in WalletBodies :
             (/\ CreateBooking(body)
              /\ NumberOrZero(body.wallet_amount) > profiles[body.customer_id].wallet_balance) =>
               /\ response'.error = "insufficient_wallet_balance"
               /\ UNCHANGED <<walletTx, profiles, bookings>>
       ]_vars

\* a user has been credited, has paid a booking from the wallet and has had
\* an overdrawing request rejected, with money left
C4_Witness ==
  \E u \in 1..Len(profiles) :
    /\ \E i \in 1..Len(walletTx) :
         walletTx[i].user_id = u /\ walletTx[i].transaction_type = "credit"
    /\ \E i \in 1..Len(walletTx) :
         walletTx[i].user_id = u /\ walletTx[i].transaction_type = "debit"
                                 /\ walletTx[i].booking_id # NoId
    /\ profiles[u].wallet_balance > 0
    /\ response.error \in {"insufficient_balance", "insufficient_wallet_balance"}

-----------------------------------------------------------------------------
(* SpecOtp: OTP challenges of one phone over time                          *)

MaxTime == 400             \* the clock stops here (seconds)

TickSteps == {30, 45, 150}
OtpPhones == {"9000000001"}
IssuedCodes == {"123456", "654321"}            \* what generateOtp may draw
SubmittedCodes == IssuedCodes \cup {"1234"}     \* what a caller may submit

InitOtp ==
  /\ profiles \in {<<>>, <<Customer("9000000001", FALSE, 0)>>}
  /\ bookings = <<>>
  /\ slots = <<>>
  /\ promos = <<>>
  /\ walletTx = <<>>
  /\ otps = [p \in Phones |-> NoOtp]
  /\ areas = {}
  /\ now = 0
  /\ response = NoResponse
  /\ outbox = <<>>
  /\ inflight = <<>>

RequestInOtp ==
  \E phone \in OtpPhones, code \in IssuedCodes, delivered \in BOOLEAN :
    RequestOtp(phone, code, delivered)
VerifyInOtp ==
  \E phone \in OtpPhones, code \in SubmittedCodes : VerifyOtp(phone, code, "customer")
ExpireInOtp == \E phone \in OtpPhones : ExpireOtp(phone)
TickInOtp == \E d \in TickSteps : now + d <= MaxTime /\ Tick(d)

NextOtp == RequestInOtp \/ VerifyInOtp \/ ExpireInOtp \/ TickInOtp

SpecOtp == InitOtp /\ [][NextOtp]_vars

\* C5 as claimed: once a challenge has attempts >= 5, every verify-otp for
\* the phone fails with otp_attempts_exceeded, the correct code included
C5_AttemptsExceededAlways ==
  [][\A phone \in OtpPhones, code \in SubmittedCodes :
       ( /\ VerifyOtp(phone, code, "customer")
         /\ otps[phone].present
         /\ otps[phone].attempts >= MAX_OTP_ATTEMPTS ) =>
         response'.error = "otp_attempts_exceeded"
    ]_vars

\* C5 amended: once a challenge has attempts >= 5, every verify-otp for the
\* phone fails and changes neither the challenge nor any profile: with
\* otp_attempts_exceeded while the challenge has not expired, with
\* otp_expired after; the challenge stays as it is until the store's TTL
\* removes it or request-otp replaces it; a request-otp that stores a
\* challenge sets attempts to 0 and the code it issued then passes the gate
C5_ExhaustedUntilNewChallenge ==
  [][/\ \A phone \in OtpPhones, code \in SubmittedCodes :
          ( /\ VerifyOtp(phone, code, "customer")
            /\ otps[phone].present
            /\ otps[phone].attempts >= MAX_OTP_ATTEMPTS ) =>
            /\ response'.error = IF otps[phone].expires_at < now
                                 THEN "otp_expired" ELSE "otp_attempts_exceeded"
            /\ UNCHANGED <<otps, profiles>>
     /\ \A phone \in OtpPhones :
          (otps[phone].present /\ otps[phone].attempts >= MAX_OTP_ATTEMPTS) =>
            \/ otps'[phone] = otps[phone]
            \/ otps'[phone] = NoOtp /\ otps[phone].expires_at < now /\ response' = response
            \/ response'.op = "request_otp" /\ response'.status = 200
     /\ \A phone \in OtpPhones, code \in IssuedCodes, delivered \in BOOLEAN :
          (RequestOtp(phone, code, delivered) /\ response'.status = 200) =>
            /\ otps'[phone].attempts = 0
            /\ otps'[phone].code_hash = hashCode(code)
            /\ otps'[phone].expires_at >= now'
    ]_vars

\* a verify-otp has been answered otp_attempts_exceeded on a live challenge
C5_Witness ==
  /\ response.op = "verify_otp"
  /\ response.error = "otp_attempts_exceeded"
  /\ \E phone \in OtpPhones :
       /\ otps[phone].present
       /\ otps[phone].attempts = MAX_OTP_ATTEMPTS
       /\ otps[phone].expires_at >= now

\* C18: a request-OTP for a phone whose stored challenge was issued less
\* than 45 seconds earlier answers 429 otp_rate_limited and leaves the
\* challenge as it is; every other request-OTP stores a challenge with the
\* hash of the newly drawn code, attempts 0, expiry now + 5 minutes and
\* last_sent_at now
C18_ResendRateLimited ==
  [][\A phone \in OtpPhones, code \in IssuedCodes, delivered \in BOOLEAN :
       RequestOtp(phone, code, delivered) =>
         IF otps[phone].present /\ now - otps[phone].last_sent_at < 45
         THEN /\ response'.status = 429
              /\ response'.error = "otp_rate_limited"
              /\ otps' = otps
         ELSE /\ response'.status = 200
              /\ otps'[phone].present
              /\ otps'[phone].code_hash = <<"sha256", code>>
              /\ otps'[phone].attempts = 0
              /\ otps'[phone].expires_at = now + 300
              /\ otps'[phone].last_sent_at = now
    ]_vars

\* a resend has been refused some seconds after a challenge was stored; the
\* challenge carries failed attempts and had itself replaced an earlier one
\* 45 seconds or more after the first request
C18_Witness ==
  /\ response.op = "request_otp" /\ response.status = 429
  /\ \E phone \in OtpPhones :
       /\ otps[phone].present
       /\ otps[phone].attempts > 0
       /\ otps[phone].last_sent_at >= 45
       /\ now - otps[phone].last_sent_at \in 1..44

-----------------------------------------------------------------------------
(* SpecGate: create-booking by a verified and by a not yet verified        *)
(* customer, with wallet money and a capped promo code at stake; the       *)
(* second customer can pass the OTP gate on the way                        *)

MaxGateBookings == 2       \* bookings created in one behaviour

GatePromoCodes == {"", "save10"}
GateWalletAmounts == {Num(0), Num(50)}
GateBodies ==
  {[Body(c, 1, "morning", "273001") EXCEPT !.promo_code = pc, !.wallet_amount = w] :
     c \in {1, 2}, pc \in GatePromoCodes, w \in GateWalletAmounts}

InitGate ==
  /\ profiles = <<Customer("9000000001", TRUE, 100), Customer("9000000002", FALSE, 100)>>
  /\ bookings = <<>>
  /\ slots = <<SlotDoc(1, 1, "09:00-12:00", 5)>>
  /\ promos = <<PromoDoc("SAVE10", 1)>>
  /\ walletTx = <<>>
  /\ otps = [p \in Phones |-> NoOtp]
  /\ areas = {}
  /\ now = 0
  /\ response = NoResponse
  /\ outbox = <<>>
  /\ inflight = <<>>

CreateInGate ==
  \E body \in GateBodies : Len(bookings) < MaxGateBookings /\ CreateBooking(body)
RequestInGate == RequestOtp("9000000002", "123456", TRUE)
VerifyInGate == \E code \in {"123456", "1234"} : VerifyOtp("9000000002", code, "customer")

NextGate == CreateInGate \/ RequestInGate \/ VerifyInGate

SpecGate == InitGate /\ [][NextGate]_vars

\* C7: a promo code's usage_count goes up by exactly 1 in a step that stores
\* a new booking referencing the code and stays as it is in every other
\* step, and it never exceeds max_usage when max_usage is set
C7_PromoUsageCounted ==
  /\ [][\A k \in 1..Len(promos) :
          promos'[k].usage_count =
            IF /\ Len(bookings') = Len(bookings) + 1
               /\ NormalizePromo(bookings'[Len(bookings')].promo_code) = promos[k].code
            THEN promos[k].usage_count + 1
            ELSE promos[k].usage_count
       ]_vars
  /\ [](\A k \in 1..Len(promos) :
          promos[k].max_usage # 0 => promos[k].usage_count <= promos[k].max_usage)

\* C8: create-booking for an existing customer whose phone_verified is false
\* answers 403 phone_not_verified and leaves bookings, slots, profiles
\* (wallet balances), promo codes and the wallet log as they were
C8_UnverifiedCustomerRejected ==
  [][\A body \in GateBodies :
       ( /\ CreateBooking(body)
         /\ body.customer_id \in 1..Len(profiles)
         /\ ~profiles[body.customer_id].phone_verified ) =>
         /\ response'.status = 403
         /\ response'.error = "phone_not_verified"
         /\ UNCHANGED <<bookings, slots, profiles, promos, walletTx>>
    ]_vars

\* a still unverified customer with money in the wallet has just been refused
\* while another customer's booking, slot unit and promo use are on record
C8_Witness ==
  /\ response.op = "create_booking" /\ response.error = "phone_not_verified"
  /\ \E c \in 1..Len(profiles) :
       ~profiles[c].phone_verified /\ profiles[c].wallet_balance > 0
  /\ Len(bookings) > 0
  /\ slots[1].booked_count > 0
  /\ promos[1].usage_count > 0

-----------------------------------------------------------------------------
(* SpecLifecycle: every handler that writes a booking's status, one        *)
(* request at a time, with one verified worker                             *)

MaxLifeBookings == 1       \* bookings created in one behaviour

SubmittedStatuses == {"pending", "accepted", "completed", "cancelled"}
LifeBody == [Body(1, 1, "morning", "273001") EXCEPT
               !.payment_method = "cod", !.payment_status = "pending"]

InitLifecycle ==
  /\ profiles = <<Customer("9000000001", TRUE, 0), Worker("9000000003", "273001", 2)>>
  /\ bookings = <<>>
  /\ slots = <<>>
  /\ promos = <<>>
  /\ walletTx = <<>>
  /\ otps = [p \in Phones |-> NoOtp]
  /\ areas = {}
  /\ now = 0
  /\ response = NoResponse
  /\ outbox = <<>>
  /\ inflight = <<>>

CreateInLife == Len(bookings) < MaxLifeBookings /\ CreateBooking(LifeBody)
UpdateStatusInLife ==
  \E id \in 1..Len(bookings), status \in SubmittedStatuses : UpdateStatus(id, status)
AutoAssignInLife == \E id \in 1..Len(bookings) : AutoAssign(id)
AssignInLife == \E id \in 1..Len(bookings) : Assign(id, 2)
CancelInLife == \E id \in 1..Len(bookings) : Cancel(id, "", "")
RescheduleInLife == \E id \in 1..Len(bookings) : Reschedule(id, 1, "evening")
AcceptInLife == \E id \in 1..Len(bookings) : Accept(id)
MarkReachedInLife == \E id \in 1..Len(bookings) : MarkReached(id)
StartWorkInLife == \E id \in 1..Len(bookings) : StartWork(id)
CompleteInLife == \E id \in 1..Len(bookings) : Complete(id)
VerifyPaymentInLife ==
  \E id \in 1..Len(bookings), signatureOk \in BOOLEAN :
    VerifyPayment(id, signatureOk, "captured", 100)
PaymentWebhookInLife ==
  \E id \in 1..Len(bookings), eventType \in {"payment.captured", "payment.failed"} :
    PaymentWebhook(id, TRUE, eventType, TRUE)

NextLifecycle ==
  \/ CreateInLife
  \/ UpdateStatusInLife
  \/ AutoAssignInLife
  \/ AssignInLife
  \/ CancelInLife
  \/ RescheduleInLife
  \/ AcceptInLife
  \/ MarkReachedInLife
  \/ StartWorkInLife
  \/ CompleteInLife
  \/ VerifyPaymentInLife
  \/ PaymentWebhookInLife

SpecLifecycle == InitLifecycle /\ [][NextLifecycle]_vars

\* C1: a booking whose status is cancelled or completed keeps that status in
\* every step, whichever operation is applied
C1_TerminalStatusAbsorbing ==
  [][\A i \in 1..Len(bookings) :
       bookings[i].status \in {"cancelled", "completed"} =>
         bookings'[i].status = bookings[i].status
    ]_vars

\* C6: right after a successful assign, auto-assign, cancel or complete, the
\* worker of the booking has current_jobs equal to the number of bookings
\* assigned to that worker whose status is assigned, accepted, reached or
\* in_progress
C6_CurrentJobsIsActiveCount ==
  ( /\ response.op \in {"assign", "auto_assign", "cancel", "complete"}
    /\ response.status = 200
    /\ bookings[response.id].employee_id # NoId ) =>
    LET w == bookings[response.id].employee_id IN
    profiles[w].current_jobs = CountBookings(bookings, w, ActiveStatuses)

\* C9: every stored booking's status is one of the seven lifecycle values
C9_StatusInEnum ==
  \A i \in 1..Len(bookings) : bookings[i].status \in BookingStatuses

-----------------------------------------------------------------------------
(* Further properties of SpecOtp                                           *)

\* C11: a verify-otp that succeeds removes the phone's challenge; while no
\* challenge is stored every verify-otp for the phone, with any code, fails
\* with otp_not_found and changes neither the store nor any profile; and a
\* challenge only comes back through a request-otp that succeeds
C11_CodeVerifiesAtMostOnce ==
  [][/\ \A phone \in OtpPhones, code \in SubmittedCodes :
          VerifyOtp(phone, code, "customer") =>
            /\ response'.status = 200 => ~otps'[phone].present
            /\ ~otps[phone].present =>
                 /\ response'.error = "otp_not_found"
                 /\ UNCHANGED <<otps, profiles>>
     /\ \A phone \in OtpPhones :
          (~otps[phone].present /\ otps'[phone].present) =>
            response'.op = "request_otp" /\ response'.status = 200
    ]_vars

\* a code has verified (the phone's profile is verified, the challenge is
\* gone) and a further verify-otp has been answered otp_not_found
C11_Witness ==
  /\ response.op = "verify_otp" /\ response.error = "otp_not_found"
  /\ \E phone \in OtpPhones :
       /\ ~otps[phone].present
       /\ FindProfileByPhone(phone) # 0
       /\ profiles[FindProfileByPhone(phone)].phone_verified

-----------------------------------------------------------------------------
(* SpecMatching: auto-assign and manual assign over two stored worker      *)
(* profiles of every kind: eligible ones with different or equal scores,   *)
(* ones failing one check each, a role the auto-assign query leaves out    *)

MaxMatchBookings == 2      \* bookings created in one behaviour

\* the worker documents a store may hold for one phone; max_capacity 1 makes
\* a worker full after one assignment
WorkerVariants(phone) ==
  LET base == Worker(phone, "273001", 1) IN
  { base,
    [base EXCEPT !.rating = 5, !.experience_years = 0],
    [base EXCEPT !.location = "273002", !.rating = 5],
    [base EXCEPT !.max_capacity = 2],
    [base EXCEPT !.id_verified = FALSE],
    [base EXCEPT !.skills_verified = FALSE],
    [base EXCEPT !.background_check_status = "pending"],
    [base EXCEPT !.approval_status = "rejected"],
    [base EXCEPT !.is_available = FALSE],
    [base EXCEPT !.skills = {2}],
    [base EXCEPT !.role = "worker"] }

MatchBody == [Body(1, 1, "morning", "273001") EXCEPT
                !.payment_method = "cod", !.payment_status = "pending"]

\* the second worker: eligible with an equal, a lower or the same score,
\* or unavailable
SecondWorkerVariants(phone) ==
  {w \in WorkerVariants(phone) :
     /\ w.id_verified /\ w.skills_verified
     /\ w.background_check_status = "approved" /\ w.approval_status = "approved"
     /\ w.skills = {} /\ w.role = "employee" /\ w.max_capacity = 1}

InitMatching ==
  /\ \E a \in WorkerVariants("9000000003"), b \in SecondWorkerVariants("9000000004") :
       profiles = <<Customer("9000000001", TRUE, 0), a, b>>
  /\ bookings = <<>>
  /\ slots = <<>>
  /\ promos = <<>>
  /\ walletTx = <<>>
  /\ otps = [p \in Phones |-> NoOtp]
  /\ areas = {}
  /\ now = 0
  /\ response = NoResponse
  /\ outbox = <<>>
  /\ inflight = <<>>

CreateInMatching == Len(bookings) < MaxMatchBookings /\ CreateBooking(MatchBody)
AutoAssignInMatching == \E id \in 1..Len(bookings) : AutoAssign(id)
AssignInMatching == \E id \in 1..Len(bookings), w \in 2..Len(profiles) : Assign(id, w)

NextMatching ==
  \/ CreateInMatching
  \/ AutoAssignInMatching
  \/ AssignInMatching

SpecMatching == InitMatching /\ [][NextMatching]_vars

\* the eligibility predicate as the specification words it
SpecEligible(w, service_id) ==
  /\ profiles[w].approval_status = "approved"
  /\ profiles[w].id_verified
  /\ profiles[w].skills_verified
  /\ profiles[w].background_check_status = "approved"
  /\ profiles[w].is_available
  /\ profiles[w].current_jobs < profiles[w].max_capacity
  /\ (service_id \in profiles[w].skills \/ profiles[w].skills = {})

\* C12: an auto-assign that succeeds gives the booking, which had no
\* employee_id, to a worker satisfying the whole eligibility predicate on the
\* profiles as stored at the call; with an employee_id on the booking it
\* answers already_assigned, with no worker satisfying the predicate
\* no_eligible_workers, and in both cases bookings and profiles stay as they are
C12_AutoAssignOnlyEligible ==
  [][\A id \in 1..Len(bookings) :
       AutoAssign(id) =>
         /\ response'.status = 200 =>
              /\ bookings[id].employee_id = NoId
              /\ bookings'[id].employee_id \in 1..Len(profiles)
              /\ SpecEligible(bookings'[id].employee_id, bookings[id].service_id)
         /\ bookings[id].employee_id # NoId =>
              /\ response'.error = "already_assigned"
              /\ UNCHANGED <<bookings, profiles>>
         /\ ( /\ bookings[id].employee_id = NoId
              /\ \A w \in 1..Len(profiles) : ~SpecEligible(w, bookings[id].service_id) ) =>
              /\ response'.error = "no_eligible_workers"
              /\ UNCHANGED <<bookings, profiles>>
    ]_vars

\* auto-assign has succeeded, has been refused as already_assigned on the
\* same booking, and the other booking is left with no eligible worker
C12_Witness ==
  /\ response.op = "auto_assign" /\ response.error = "no_eligible_workers"
  /\ \E i \in 1..Len(bookings) :
       bookings[i].status = "assigned" /\ bookings[i].employee_id # NoId
  /\ \E w \in 2..Len(profiles) :
       profiles[w].current_jobs >= profiles[w].max_capacity

\* the score of C13, written out
SpecScore(w, customerLocation) ==
  100 * (IF profiles[w].location = customerLocation THEN 1 ELSE 0)
  + 10 * profiles[w].rating
  + 5 * profiles[w].experience_years
  + 2 * (profiles[w].max_capacity - profiles[w].current_jobs)

C14_ManualAssignChecksVerification ==
  [][\A id \in 1..Len(bookings), w \in 2..Len(profiles) :
       Assign(id, w) =>
         IF /\ profiles[w].id_verified
            /\ profiles[w].skills_verified
            /\ profiles[w].background_check_status = "approved"
            /\ profiles[w].approval_status = "approved"
         THEN /\ response'.status = 200
              /\ bookings'[id].employee_id = w
              /\ bookings'[id].status = "assigned"
         ELSE /\ response'.error = "worker_not_verified"
              /\ UNCHANGED <<bookings, profiles>>
    ]_vars

\* a booking has been assigned by hand to a worker who is unavailable or
\* already at capacity
C14_Witness ==
  /\ response.op = "assign" /\ response.status = 200
  /\ LET w == bookings[response.id].employee_id IN
       \/ ~profiles[w].is_available
       \/ \E i \in 1..Len(bookings) :
            /\ i # response.id
            /\ bookings[i].employee_id = w
            /\ bookings[i].status = "assigned"
            /\ profiles[w].max_capacity = 1

-----------------------------------------------------------------------------
(* SpecTerminal: cancel against bookings that hold a slot and a worker and *)
(* may already be cancelled or completed                                   *)

MaxTermBookings == 2       \* bookings created in one behaviour

InitTerminal ==
  /\ profiles = <<Customer("9000000001", TRUE, 0), Worker("9000000003", "273001", 2)>>
  /\ bookings = <<>>
  /\ slots = <<SlotDoc(1, 1, "09:00-12:00", 2)>>
  /\ promos = <<>>
  /\ walletTx = <<>>
  /\ otps = [p \in Phones |-> NoOtp]
  /\ areas = {}
  /\ now = 0
  /\ response = NoResponse
  /\ outbox = <<>>
  /\ inflight = <<>>

CreateInTerminal == Len(bookings) < MaxTermBookings /\ CreateBooking(MatchBody)
AssignInTerminal == \E id \in 1..Len(bookings) : Assign(id, 2)
CompleteInTerminal == \E id \in 1..Len(bookings) : Complete(id)
CancelInTerminal ==
  \E id \in 1..Len(bookings), by \in {"", "admin"} : Cancel(id, "", by)

NextTerminal ==
  \/ CreateInTerminal
  \/ AssignInTerminal
  \/ CompleteInTerminal
  \/ CancelInTerminal

SpecTerminal == InitTerminal /\ [][NextTerminal]_vars

-----------------------------------------------------------------------------
(* SpecProgress: the worker's workflow endpoints against a booking in any  *)
(* status                                                                  *)

MaxProgressBookings == 1   \* bookings created in one behaviour

InitProgress ==
  /\ profiles = <<Customer("9000000001", TRUE, 0), Worker("9000000003", "273001", 2)>>
  /\ bookings = <<>>
  /\ slots = <<>>
  /\ promos = <<>>
  /\ walletTx = <<>>
  /\ otps = [p \in Phones |-> NoOtp]
  /\ areas = {}
  /\ now = 0
  /\ response = NoResponse
  /\ outbox = <<>>
  /\ inflight = <<>>

CreateInProgress == Len(bookings) < MaxProgressBookings /\ CreateBooking(LifeBody)
\* the gateway's callback arrives while the booking is still pending
VerifyPaymentInProgress ==
  \E id \in 1..Len(bookings) :
    bookings[id].status = "pending" /\ VerifyPayment(id, TRUE, "captured", 100)
\* the admin assigns a booking that waits for a worker
AssignInProgress ==
  \E id \in 1..Len(bookings) :
    bookings[id].status \in {"pending", "confirmed"} /\ Assign(id, 2)
AcceptInProgress == \E id \in 1..Len(bookings) : Accept(id)
MarkReachedInProgress == \E id \in 1..Len(bookings) : MarkReached(id)
StartWorkInProgress == \E id \in 1..Len(bookings) : StartWork(id)
CompleteInProgress == \E id \in 1..Len(bookings) : Complete(id)
CancelInProgress == \E id \in 1..Len(bookings) : Cancel(id, "", "")

NextProgress ==
  \/ CreateInProgress
  \/ VerifyPaymentInProgress
  \/ AssignInProgress
  \/ AcceptInProgress
  \/ MarkReachedInProgress
  \/ StartWorkInProgress
  \/ CompleteInProgress
  \/ CancelInProgress

SpecProgress == InitProgress /\ [][NextProgress]_vars

\* the status of a booking and every timestamp the workflow writes
StatusAndStamps(bk) ==
  <<bk.status, bk.assigned_at, bk.accepted_at, bk.reached_at, bk.started_at,
    bk.completed_at, bk.cancelled_at>>

\* C16: from a status other than cancelled and completed, accept,
\* mark-reached and start-work succeed, set the status to accepted, reached
\* and in_progress and stamp accepted_at, reached_at and started_at with the
\* current time; from cancelled or completed each answers invalid_status and
\* the booking keeps its status and its timestamps
C16_WorkflowGuards ==
  [][\A id \in 1..Len(bookings) :
       LET open == bookings[id].status \notin {"cancelled", "completed"}
           refused == /\ response'.status = 400
                      /\ response'.error = "invalid_status"
                      /\ StatusAndStamps(bookings'[id]) = StatusAndStamps(bookings[id])
       IN /\ Accept(id) =>
               IF open
               THEN /\ response'.status = 200
                    /\ bookings'[id].status = "accepted"
                    /\ bookings'[id].accepted_at = now
               ELSE refused
          /\ MarkReached(id) =>
               IF open
               THEN /\ response'.status = 200
                    /\ bookings'[id].status = "reached"
                    /\ bookings'[id].reached_at = now
               ELSE refused
          /\ StartWork(id) =>
               IF open
               THEN /\ response'.status = 200
                    /\ bookings'[id].status = "in_progress"
                    /\ bookings'[id].started_at = now
               ELSE refused
    ]_vars

\* start-work has been refused on a completed booking that had been accepted
\* and never started
C16_Witness ==
  /\ response.op = "start_work" /\ response.error = "invalid_status"
  /\ bookings[response.id].status = "completed"
  /\ bookings[response.id].accepted_at # Null
  /\ bookings[response.id].started_at = Null


-----------------------------------------------------------------------------
(* SpecWalletGuard: create-booking with a wallet part, against a customer  *)
(* with money in the wallet, a slot of capacity one and a promo code       *)

MaxGuardedBookings == 2    \* bookings created in one behaviour

GuardWallets == {Num(0), Num(20), Num(50), Num(80)}
GuardBodies ==
  {[Body(1, 1, t, "273001") EXCEPT
      !.base_price = b, !.discount_amount = d, !.wallet_amount = w,
      !.promo_code = "SAVE10", !.total_price = tp] :
     t \in {"morning", "evening"}, b \in {Num(100), Num(40)},
     d \in {Num(0), Num(70)}, w \in GuardWallets, tp \in {Num(100), Num(-1)}}

InitWalletGuard ==
  /\ profiles = <<Customer("9000000001", TRUE, 60)>>
  /\ bookings = <<>>
  /\ slots = <<SlotDoc(1, 1, "09:00-12:00", 1)>>
  /\ promos = <<PromoDoc("SAVE10", 5)>>
  /\ walletTx = <<>>
  /\ otps = [p \in Phones |-> NoOtp]
  /\ areas = {}
  /\ now = 0
  /\ response = NoResponse
  /\ outbox = <<>>
  /\ inflight = <<>>

CreateInWalletGuard ==
  \E body \in GuardBodies : Len(bookings) < MaxGuardedBookings /\ CreateBooking(body)

NextWalletGuard == CreateInWalletGuard

SpecWalletGuard == InitWalletGuard /\ [][NextWalletGuard]_vars

\* the request gets as far as the wallet checks: the body is valid, the
\* customer exists with a verified phone, and the slot, if any, has room
ReachesWalletChecks(body) ==
  /\ body.total_price[1] = "num" /\ body.total_price[2] >= 0
  /\ body.customer_id \in 1..Len(profiles)
  /\ profiles[body.customer_id].phone_verified
  /\ \A k \in 1..Len(slots) :
       ( /\ slots[k].service_id = body.service_id
         /\ slots[k].date = body.booking_date
         /\ slots[k].time_slot = timeSlotMap(body.booking_time) ) =>
         slots[k].booked_count < slots[k].total_capacity

\* max(0, base_price + addon_price - discount_amount) of a request body
BodySubtotal(body) ==
  Max(0, NumberOrZero(body.base_price) + NumberOrZero(body.addon_price)
         - NumberOrZero(body.discount_amount))

\* the rejection writes nothing: no booking, and balance, log, slots and
\* promos as they were
NothingWritten == UNCHANGED <<bookings, profiles, walletTx, slots, promos>>

\* C17 as stated: a create-booking that gets as far as the wallet checks is
\* rejected with insufficient_wallet_balance when wallet_amount exceeds the
\* balance, and with invalid_wallet_amount when wallet_amount exceeds
\* max(0, base_price + addon_price - discount_amount); both write nothing
C17_WalletErrorsAsStated ==
  [][\A body \in GuardBodies :
       (CreateBooking(body) /\ ReachesWalletChecks(body)) =>
         /\ NumberOrZero(body.wallet_amount) > profiles[body.customer_id].wallet_balance =>
              response'.error = "insufficient_wallet_balance" /\ NothingWritten
         /\ NumberOrZero(body.wallet_amount) > BodySubtotal(body) =>
              response'.error = "invalid_wallet_amount" /\ NothingWritten
    ]_vars

\* C17: a create-booking that gets as far as the wallet checks is rejected
\* with insufficient_wallet_balance when wallet_amount exceeds the balance,
\* and with invalid_wallet_amount when wallet_amount is within the balance
\* and exceeds max(0, base_price + addon_price - discount_amount); both
\* write nothing
C17_WalletErrorsInOrder ==
  [][\A body \in GuardBodies :
       (CreateBooking(body) /\ ReachesWalletChecks(body)) =>
         LET w == NumberOrZero(body.wallet_amount)
             balance == profiles[body.customer_id].wallet_balance
         IN /\ w > balance =>
                 response'.error = "insufficient_wallet_balance" /\ NothingWritten
            /\ (w <= balance /\ w > BodySubtotal(body)) =>
                 response'.error = "invalid_wallet_amount" /\ NothingWritten
    ]_vars

\* a request has been rejected with invalid_wallet_amount after an earlier
\* booking took money from the wallet, a unit of the slot and a promo use
C17_Witness ==
  /\ response.error = "invalid_wallet_amount"
  /\ Len(bookings) = 1
  /\ profiles[1].wallet_balance \in {10, 40}
  /\ Len(walletTx) = 1
  /\ slots[1].booked_count = 1
  /\ promos[1].usage_count = 1

\* the customer notifications about booking id among the events of out
CustomerEvents(out, id) ==
  {i \in 1..Len(out) : out[i].to = "customer" /\ out[i].booking_id = id}

\* C19: right after a successful assign, accept, mark-reached, start-work,
\* complete or cancel, the request has handed exactly one customer
\* notification for the booking to the dispatcher
C19_OneCustomerNotification ==
  ( /\ response.status = 200
    /\ response.op \in {"assign", "accept", "mark_reached", "start_work",
                        "complete", "cancel"} ) =>
    Cardinality(CustomerEvents(outbox, response.id)) = 1


-----------------------------------------------------------------------------
(* SpecRoundTrip: bookings are created on two slots, then one of them goes *)
(* through cancel, reschedule, cancel; the last response tells how far the *)
(* sequence has come                                                       *)

MaxRoundBookings == 2      \* bookings created in one behaviour

RoundTimes == {"morning", "evening"}
RoundBodies == {Body(c, 1, t, "273001") : c \in {1, 2}, t \in RoundTimes}

InitRoundTrip ==
  /\ profiles = <<Customer("9000000001", TRUE, 0), Customer("9000000002", TRUE, 0)>>
  /\ bookings = <<>>
  /\ slots = <<SlotDoc(1, 1, "09:00-12:00", 3), SlotDoc(1, 1, "15:00-18:00", 1)>>
  /\ promos = <<>>
  /\ walletTx = <<>>
  /\ otps = [p \in Phones |-> NoOtp]
  /\ areas = {}
  /\ now = 0
  /\ response = NoResponse
  /\ outbox = <<>>
  /\ inflight = <<>>

\* before the sequence: only create-booking requests have been made
BeforeSequence == response.op \in {"none", "create_booking"}

CreateInRound ==
  \E body \in RoundBodies :
    /\ BeforeSequence
    /\ Len(bookings) < MaxRoundBookings
    /\ CreateBooking(body)

FirstCancelInRound ==
  \E id \in 1..Len(bookings), by \in {"", "admin"} :
    BeforeSequence /\ Cancel(id, "", by)

RescheduleInRound ==
  \E t \in RoundTimes :
    /\ response.op = "cancel" /\ response.status = 200
    /\ Reschedule(response.id, 1, t)

SecondCancelInRound ==
  /\ response.op = "reschedule"
  /\ Cancel(response.id, "", "")

NextRoundTrip ==
  \/ CreateInRound
  \/ FirstCancelInRound
  \/ RescheduleInRound
  \/ SecondCancelInRound

SpecRoundTrip == InitRoundTrip /\ [][NextRoundTrip]_vars

\* the number of stored bookings that point at slot k
Holders(k) == Cardinality({i \in 1..Len(bookings) : SlotOf(bookings[i]) = k})

\* the sequence is over: the second cancel has been answered
SequenceDone == response.op = "cancel" /\ response.status = 400

\* before the sequence every stored booking holds its slot, so the
\* pre-sequence booked_count of a slot is the number of its holders
PreSequenceCountIsHolders ==
  BeforeSequence => \A k \in 1..Len(slots) : slots[k].booked_count = Holders(k)

-----------------------------------------------------------------------------
(* Reschedule, checked under SpecSlots                                     *)

\* C21: a reschedule answered slot_unavailable leaves every booking and
\* every slot, the booking's current slot included, as it was
C21_RejectedRescheduleWritesNothing ==
  [][\A id \in 1..Len(bookings), d \in SlotDays, t \in SlotTimes :
       (Reschedule(id, d, t) /\ response'.error = "slot_unavailable") =>
         UNCHANGED <<bookings, slots>>
    ]_vars

-----------------------------------------------------------------------------
(* SpecReassign: bookings are assigned, accepted and rescheduled; here a   *)
(* pending booking has a worker only when a reschedule has reset it        *)

MaxReassignBookings == 2   \* bookings created in one behaviour

InitReassign ==
  /\ profiles = <<Customer("9000000001", TRUE, 0), Worker("9000000003", "273001", 2)>>
  /\ bookings = <<>>
  /\ slots = <<>>
  /\ promos = <<>>
  /\ walletTx = <<>>
  /\ otps = [p \in Phones |-> NoOtp]
  /\ areas = {}
  /\ now = 0
  /\ response = NoResponse
  /\ outbox = <<>>
  /\ inflight = <<>>

CreateInReassign == Len(bookings) < MaxReassignBookings /\ CreateBooking(MatchBody)
AssignInReassign ==
  \E id \in 1..Len(bookings) : bookings[id].employee_id = NoId /\ Assign(id, 2)
AutoAssignInReassign == \E id \in 1..Len(bookings) : AutoAssign(id)
AcceptInReassign == \E id \in 1..Len(bookings) : Accept(id)
RescheduleInReassign ==
  \E id \in 1..Len(bookings), t \in {"morning", "evening"} : Reschedule(id, 1, t)

NextReassign ==
  \/ CreateInReassign
  \/ AssignInReassign
  \/ AutoAssignInReassign
  \/ AcceptInReassign
  \/ RescheduleInReassign

SpecReassign == InitReassign /\ [][NextReassign]_vars

\* C22: a reschedule of an assigned booking stores status pending and keeps
\* every other status, and an auto-assign that follows the reschedule of an
\* assigned booking, with an eligible worker in the store, succeeds
C22_RescheduledBookingReassignable ==
  [][\A id \in 1..Len(bookings) :
       /\ \A t \in {"morning", "evening"} :
            (Reschedule(id, 1, t) /\ response'.status = 200) =>
              bookings'[id].status =
                IF bookings[id].status = "assigned" THEN "pending"
                ELSE bookings[id].status
       /\ ( /\ AutoAssign(id)
            /\ response.op = "reschedule" /\ response.id = id /\ response.status = 200
            /\ bookings[id].status = "pending"
            /\ \E w \in 1..Len(profiles) : SpecEligible(w, bookings[id].service_id) ) =>
            response'.status = 200
    ]_vars

-----------------------------------------------------------------------------
(* POST /bookings, one store operation per step. Between two awaits a      *)
(* handler runs alone; at every await another request may run. inflight[r] *)
(* holds the request's position and the documents it has read. The steps   *)
(* cover requests without a promo code; Booking.create and the later       *)
(* booking.save() of the payment fields, which no other request reads, are *)
(* one step.                                                               *)

Idle == [pc |-> "idle"]
Done(op, status, error) == [pc |-> "done", op |-> op, status |-> status, error |-> error]

\* the request answers: res.status(status).json(...)
Finish(r, op, id, status, error) ==
  /\ inflight' = [inflight EXCEPT ![r] = Done(op, status, error)]
  /\ response' = Resp(op, id, status, error)
  /\ outbox' = <<>>

\* the request moves on to its next store operation
Goto(r, rec) ==
  /\ inflight' = [inflight EXCEPT ![r] = rec]
  /\ UNCHANGED <<response, outbox>>

\* validation, then Profile.findById(customer_id) and the phone_verified test
CreateFindCustomer(r, body) ==
  /\ inflight[r] = Idle
  /\ body.promo_code = ""
  /\ UNCHANGED <<profiles, bookings, slots, promos, walletTx, otps, areas, now>>
  /\ IF ~ValidTotalPrice(body.total_price)
       THEN Finish(r, "create_booking", 0, 400, "validation_failed")
     ELSE IF customerGate(body.customer_id) = "customer_not_found"
       THEN Finish(r, "create_booking", 0, 404, "customer_not_found")
     ELSE IF customerGate(body.customer_id) = "phone_not_verified"
       THEN Finish(r, "create_booking", 0, 403, "phone_not_verified")
     ELSE Goto(r, [pc |-> "find_slot", op |-> "create_booking", body |-> body])

\* Slot.findOne(...): the request keeps the document it read (k = 0: none)
\* and tests its booked_count against its total_capacity
CreateFindSlot(r) ==
  /\ inflight[r].pc = "find_slot"
  /\ UNCHANGED <<profiles, bookings, slots, promos, walletTx, otps, areas, now>>
  /\ LET body == inflight[r].body
         k == FindSlot(body.service_id, body.booking_date, timeSlotMap(body.booking_time))
     IN IF k # 0 /\ slots[k].booked_count >= slots[k].total_capacity
        THEN Finish(r, "create_booking", 0, 400, "slot_unavailable")
        ELSE Goto(r, [pc |-> IF NumberOrZero(body.wallet_amount) > 0
                             THEN "check_wallet" ELSE "insert",
                      op |-> "create_booking", body |-> body, k |-> k,
                      booked_count |-> IF k # 0 THEN slots[k].booked_count ELSE 0])

\* Profile.findById(customer_id) and the two wallet checks
CreateCheckWallet(r) ==
  /\ inflight[r].pc = "check_wallet"
  /\ UNCHANGED <<profiles, bookings, slots, promos, walletTx, otps, areas, now>>
  /\ LET body == inflight[r].body
         walletAmount == NumberOrZero(body.wallet_amount)
         subtotal == subtotalAfterDiscount(NumberOrZero(body.base_price),
                       NumberOrZero(body.addon_price), NumberOrZero(body.discount_amount))
     IN IF walletAmount > profiles[body.customer_id].wallet_balance
          THEN Finish(r, "create_booking", 0, 400, "insufficient_wallet_balance")
        ELSE IF walletAmount > subtotal
          THEN Finish(r, "create_booking", 0, 400, "invalid_wallet_amount")
        ELSE Goto(r, [inflight[r] EXCEPT !.pc = "insert"])

\* Booking.create({...}); without a wallet part and without a slot document
\* the handler answers here
CreateInsert(r) ==
  /\ inflight[r].pc = "insert"
  /\ LET body == inflight[r].body
         walletAmount == NumberOrZero(body.wallet_amount)
     IN /\ bookings' = Append(bookings,
             NewBooking(body, NumberOrZero(body.base_price), NumberOrZero(body.addon_price),
                        NumberOrZero(body.discount_amount), walletAmount))
        /\ IF walletAmount > 0
             THEN Goto(r, [inflight[r] EXCEPT !.pc = "read_balance"] @@
                          [booking_id |-> Len(bookings) + 1])
           ELSE IF inflight[r].k # 0
             THEN Goto(r, [inflight[r] EXCEPT !.pc = "save_slot"] @@
                          [booking_id |-> Len(bookings) + 1])
           ELSE Finish(r, "create_booking", Len(bookings) + 1, 200, "ok")
  /\ UNCHANGED <<profiles, slots, promos, walletTx, otps, areas, now>>

\* const customerProfile = await Profile.findById(customer_id), after the
\* booking is stored; newBalance is computed from this read
CreateReadBalance(r) ==
  /\ inflight[r].pc = "read_balance"
  /\ Goto(r, [inflight[r] EXCEPT !.pc = "write_balance"] @@
             [newBalance |-> profiles[inflight[r].body.customer_id].wallet_balance
                             - NumberOrZero(inflight[r].body.wallet_amount)])
  /\ UNCHANGED <<profiles, bookings, slots, promos, walletTx, otps, areas, now>>

\* Profile.findByIdAndUpdate(customer_id, { wallet_balance: newBalance })
CreateWriteBalance(r) ==
  /\ inflight[r].pc = "write_balance"
  /\ profiles' = [profiles EXCEPT ![inflight[r].body.customer_id].wallet_balance =
                    inflight[r].newBalance]
  /\ Goto(r, [inflight[r] EXCEPT !.pc = "log_debit"])
  /\ UNCHANGED <<bookings, slots, promos, walletTx, otps, areas, now>>

\* WalletTransaction.create({transaction_type: 'debit', ...}); without a slot
\* document the handler answers here
CreateLogDebit(r) ==
  /\ inflight[r].pc = "log_debit"
  /\ walletTx' = Append(walletTx,
       [user_id |-> inflight[r].body.customer_id,
        amount |-> NumberOrZero(inflight[r].body.wallet_amount),
        transaction_type |-> "debit", booking_id |-> inflight[r].booking_id])
  /\ IF inflight[r].k # 0
       THEN Goto(r, [inflight[r] EXCEPT !.pc = "save_slot"])
     ELSE Finish(r, "create_booking", inflight[r].booking_id, 200, "ok")
  /\ UNCHANGED <<profiles, bookings, slots, promos, otps, areas, now>>

\* slot.booked_count += 1 on the document read in CreateFindSlot, then
\* slot.save(), which writes the paths the request changed; the handler answers
CreateSaveSlot(r) ==
  /\ inflight[r].pc = "save_slot"
  /\ LET k == inflight[r].k
         count == inflight[r].booked_count + 1
     IN slots' = [slots EXCEPT ![k].booked_count = count,
                               ![k].is_available =
                                  IF count >= slots[k].total_capacity THEN FALSE ELSE @]
  /\ Finish(r, "create_booking", inflight[r].booking_id, 200, "ok")
  /\ UNCHANGED <<profiles, bookings, promos, walletTx, otps, areas, now>>

-----------------------------------------------------------------------------
(* SpecRaceSlots: create-booking requests for one slot, served             *)
(* concurrently                                                            *)

MaxSlotRequests == 2       \* requests in one behaviour

RaceSlotBodies == {Body(c, 1, "morning", "273001") : c \in {1, 2}}

InitRaceSlots ==
  /\ profiles = <<Customer("9000000001", TRUE, 0), Customer("9000000002", TRUE, 0)>>
  /\ bookings = <<>>
  /\ \E c \in 1..MaxCapacity : slots = <<SlotDoc(1, 1, "09:00-12:00", c)>>
  /\ promos = <<>>
  /\ walletTx = <<>>
  /\ otps = [p \in Phones |-> NoOtp]
  /\ areas = {}
  /\ now = 0
  /\ response = NoResponse
  /\ outbox = <<>>
  /\ inflight = [r \in 1..MaxSlotRequests |-> Idle]

FindCustomerInRaceSlots ==
  \E r \in DOMAIN inflight, body \in RaceSlotBodies : CreateFindCustomer(r, body)
FindSlotInRaceSlots == \E r \in DOMAIN inflight : CreateFindSlot(r)
InsertInRaceSlots == \E r \in DOMAIN inflight : CreateInsert(r)
SaveSlotInRaceSlots == \E r \in DOMAIN inflight : CreateSaveSlot(r)

NextRaceSlots ==
  \/ FindCustomerInRaceSlots
  \/ FindSlotInRaceSlots
  \/ InsertInRaceSlots
  \/ SaveSlotInRaceSlots

SpecRaceSlots == InitRaceSlots /\ [][NextRaceSlots]_vars

\* no request is between two of its store operations
AllRequestsFinished == \A r \in DOMAIN inflight : inflight[r].pc \in {"idle", "done"}

\* C23: once the requests have been answered, the bookings that hold a slot
\* and are not cancelled number at most the slot's total_capacity,
\* whichever way the requests' store operations were interleaved
C23_NoOverbookingUnderConcurrency ==
  AllRequestsFinished =>
    \A k \in 1..Len(slots) :
      Cardinality({i \in 1..Len(bookings) :
                     SlotOf(bookings[i]) = k /\ bookings[i].status # "cancelled"})
        <= slots[k].total_capacity

-----------------------------------------------------------------------------
(* POST /wallet/transactions, one store operation per step                 *)

\* validation, then Profile.findById(user_id); newBalance is computed from
\* this read and an overdrawing debit or refund is refused
TxReadProfile(r, user_id, amount, transaction_type) ==
  LET amountNum == NumberOrZero(amount) IN
  /\ inflight[r] = Idle
  /\ UNCHANGED <<profiles, bookings, slots, promos, walletTx, otps, areas, now>>
  /\ IF user_id = NoId \/ amount = Num(0)
       THEN Finish(r, "wallet_transaction", 0, 400, "validation_failed")
     ELSE IF transaction_type \notin TransactionTypes
       THEN Finish(r, "wallet_transaction", 0, 400, "validation_failed")
     ELSE IF amount[1] # "num" \/ amountNum <= 0
       THEN Finish(r, "wallet_transaction", 0, 400, "validation_failed")
     ELSE IF user_id \notin 1..Len(profiles)
       THEN Finish(r, "wallet_transaction", 0, 404, "user_not_found")
     ELSE IF /\ transaction_type \in {"debit", "refund"}
             /\ newBalance(profiles[user_id].wallet_balance, transaction_type, amountNum) < 0
       THEN Finish(r, "wallet_transaction", 0, 400, "insufficient_balance")
     ELSE Goto(r, [pc |-> "log_tx", op |-> "wallet_transaction", user_id |-> user_id,
                   amount |-> amountNum, transaction_type |-> transaction_type,
                   newBalance |-> newBalance(profiles[user_id].wallet_balance,
                                             transaction_type, amountNum)])

\* WalletTransaction.create({...})
TxLog(r) ==
  /\ inflight[r].pc = "log_tx"
  /\ walletTx' = Append(walletTx,
       [user_id |-> inflight[r].user_id, amount |-> inflight[r].amount,
        transaction_type |-> inflight[r].transaction_type, booking_id |-> NoId])
  /\ Goto(r, [inflight[r] EXCEPT !.pc = "write_tx_balance"])
  /\ UNCHANGED <<profiles, bookings, slots, promos, otps, areas, now>>

\* Profile.findByIdAndUpdate(user_id, { wallet_balance: newBalance }); the
\* handler answers
TxWriteBalance(r) ==
  /\ inflight[r].pc = "write_tx_balance"
  /\ profiles' = [profiles EXCEPT ![inflight[r].user_id].wallet_balance =
                    inflight[r].newBalance]
  /\ Finish(r, "wallet_transaction", 0, 200, "ok")
  /\ UNCHANGED <<bookings, slots, promos, walletTx, otps, areas, now>>

-----------------------------------------------------------------------------
(* SpecRaceWallet: wallet-paid create-booking requests of one customer and *)
(* admin wallet transactions for that customer, served concurrently; the   *)
(* customer starts with one recorded credit                                *)

MaxWalletRequests == 2     \* requests in one behaviour

RaceWalletBodies ==
  {[Body(1, 1, "afternoon", "273001") EXCEPT !.wallet_amount = Num(50)]}
RaceTxTypes == {"credit", "debit"}

InitRaceWallet ==
  /\ profiles = <<Customer("9000000001", TRUE, 60)>>
  /\ bookings = <<>>
  /\ slots = <<>>
  /\ promos = <<>>
  /\ walletTx = <<[user_id |-> 1, amount |-> 60, transaction_type |-> "credit",
                   booking_id |-> NoId]>>
  /\ otps = [p \in Phones |-> NoOtp]
  /\ areas = {}
  /\ now = 0
  /\ response = NoResponse
  /\ outbox = <<>>
  /\ inflight = [r \in 1..MaxWalletRequests |-> Idle]

FindCustomerInRaceWallet ==
  \E r \in DOMAIN inflight, body \in RaceWalletBodies : CreateFindCustomer(r, body)
FindSlotInRaceWallet == \E r \in DOMAIN inflight : CreateFindSlot(r)
CheckWalletInRaceWallet == \E r \in DOMAIN inflight : CreateCheckWallet(r)
InsertInRaceWallet == \E r \in DOMAIN inflight : CreateInsert(r)
ReadBalanceInRaceWallet == \E r \in DOMAIN inflight : CreateReadBalance(r)
WriteBalanceInRaceWallet == \E r \in DOMAIN inflight : CreateWriteBalance(r)
LogDebitInRaceWallet == \E r \in DOMAIN inflight : CreateLogDebit(r)
TxReadInRaceWallet ==
  \E r \in DOMAIN inflight, t \in RaceTxTypes : TxReadProfile(r, 1, Num(50), t)
TxLogInRaceWallet == \E r \in DOMAIN inflight : TxLog(r)
TxWriteInRaceWallet == \E r \in DOMAIN inflight : TxWriteBalance(r)

NextRaceWallet ==
  \/ FindCustomerInRaceWallet
  \/ FindSlotInRaceWallet
  \/ CheckWalletInRaceWallet
  \/ InsertInRaceWallet
  \/ ReadBalanceInRaceWallet
  \/ WriteBalanceInRaceWallet
  \/ LogDebitInRaceWallet
  \/ TxReadInRaceWallet
  \/ TxLogInRaceWallet
  \/ TxWriteInRaceWallet

SpecRaceWallet == InitRaceWallet /\ [][NextRaceWallet]_vars

\* C24: the customer's wallet_balance is never negative, and once the
\* requests have been answered it equals the signed sum of the recorded
\* transactions (credit +, debit and refund -), whichever way the requests'
\* store operations were interleaved
C24_WalletConsistentUnderConcurrency ==
  \A u \in 1..Len(profiles) :
    /\ profiles[u].wallet_balance >= 0
    /\ AllRequestsFinished => profiles[u].wallet_balance = SignedSum(walletTx, u)

-----------------------------------------------------------------------------
(* POST /auth/verify-otp and POST /auth/reset-password, stepwise: the read *)
(* of the challenge with its checks and the comparison, then the write.    *)
(* What follows OTP.deleteOne on a matching code (the profile lookup and   *)
(* its write) no longer touches the challenge and is part of the same step *)

\* the handler's catch block: 500 with the handler's own error code
CatchError(op) == IF op = "verify_otp" THEN "otp_verify_failed" ELSE "reset_password_failed"

\* OTP.findOne({phone}), the three checks and the comparison of the hashes;
\* the request keeps the document it read
OtpReadAndCompare(r, op, phone, code) ==
  LET gate == OtpGate(phone) IN
  /\ inflight[r] = Idle
  /\ UNCHANGED <<profiles, bookings, slots, promos, walletTx, otps, areas, now>>
  /\ IF gate # "ok"
       THEN Finish(r, op, 0, IF gate = "otp_attempts_exceeded" THEN 429 ELSE 400, gate)
     ELSE IF hashCode(code) # otps[phone].code_hash
       THEN Goto(r, [pc |-> "save_attempts", op |-> op, phone |-> phone,
                     attempts |-> otps[phone].attempts + 1])
     ELSE Goto(r, [pc |-> "delete_otp", op |-> op, phone |-> phone])

\* otp.attempts += 1 on the document read, then otp.save(): the stored
\* attempts become the request's value; saving a document that has been
\* deleted meanwhile throws and the catch block answers 500
OtpSaveAttempts(r) ==
  LET phone == inflight[r].phone IN
  /\ inflight[r].pc = "save_attempts"
  /\ IF otps[phone].present
     THEN /\ otps' = [otps EXCEPT ![phone].attempts = inflight[r].attempts]
          /\ Finish(r, inflight[r].op, 0, 400, "otp_invalid")
     ELSE /\ otps' = otps
          /\ Finish(r, inflight[r].op, 0, 500, CatchError(inflight[r].op))
  /\ UNCHANGED <<profiles, bookings, slots, promos, walletTx, areas, now>>

\* OTP.deleteOne({_id}) and the rest of the handler: verify-otp finds or
\* creates the profile, reset-password needs an existing one; both store
\* phone_verified = true
OtpDeleteAndFinish(r) ==
  LET phone == inflight[r].phone
      op == inflight[r].op
      p == FindProfileByPhone(phone)
  IN
  /\ inflight[r].pc = "delete_otp"
  /\ otps' = ConsumeChallenge(otps, phone)
  /\ IF p # 0
     THEN /\ profiles' = [profiles EXCEPT ![p].phone_verified = TRUE]
          /\ Finish(r, op, p, 200, "ok")
     ELSE IF op = "verify_otp"
     THEN /\ profiles' = Append(profiles, NewProfile(phone, "customer"))
          /\ Finish(r, op, Len(profiles) + 1, 200, "ok")
     ELSE /\ profiles' = profiles
          /\ Finish(r, op, 0, 404, "not_found")
  /\ UNCHANGED <<bookings, slots, promos, walletTx, areas, now>>

-----------------------------------------------------------------------------
(* SpecRaceOtp: verify-otp and reset-password requests for one phone,      *)
(* served concurrently against one stored challenge                        *)

MaxOtpRequests == 6        \* requests in one behaviour

RaceOtpOps == {"verify_otp", "reset_password"}
RaceOtpCodes == {"123456", "1234"}             \* the issued code and a wrong one

InitRaceOtp ==
  /\ profiles = <<>>
  /\ bookings = <<>>
  /\ slots = <<>>
  /\ promos = <<>>
  /\ walletTx = <<>>
  /\ otps = [p \in Phones |->
               IF p = "9000000001"
               THEN [present |-> TRUE, code_hash |-> hashCode("123456"),
                     expires_at |-> OTP_VALIDITY, attempts |-> 0,
                     last_sent_at |-> 0, purpose |-> "login"]
               ELSE NoOtp]
  /\ areas = {}
  /\ now = 0
  /\ response = NoResponse
  /\ outbox = <<>>
  /\ inflight = [r \in 1..MaxOtpRequests |-> Idle]

\* requests are numbered in the order in which they are received
ReadInRaceOtp ==
  \E r \in DOMAIN inflight, op \in RaceOtpOps, code \in RaceOtpCodes :
    /\ \A q \in 1..(r - 1) : inflight[q] # Idle
    /\ OtpReadAndCompare(r, op, "9000000001", code)
SaveAttemptsInRaceOtp == \E r \in DOMAIN inflight : OtpSaveAttempts(r)
DeleteInRaceOtp == \E r \in DOMAIN inflight : OtpDeleteAndFinish(r)

NextRaceOtp ==
  \/ ReadInRaceOtp
  \/ SaveAttemptsInRaceOtp
  \/ DeleteInRaceOtp

SpecRaceOtp == InitRaceOtp /\ [][NextRaceOtp]_vars

\* the requests that have compared a wrong code against the challenge's hash
WrongComparisons ==
  {r \in DOMAIN inflight :
     \/ inflight[r].pc = "save_attempts"
     \/ /\ inflight[r].pc = "done"
        /\ inflight[r].error \in {"otp_invalid", "otp_verify_failed", "reset_password_failed"}}

\* C25: at most 5 wrong codes are compared against the hash of one
\* challenge, whichever way the requests' store operations are interleaved
C25_AtMostFiveWrongComparisons == Cardinality(WrongComparisons) <= 5

-----------------------------------------------------------------------------
(* Worker load, checked under SpecMatching                                 *)

\* C26: every worker's current_jobs is at most the worker's max_capacity
C26_CurrentJobsWithinCapacity ==
  \A w \in 1..Len(profiles) : profiles[w].current_jobs <= profiles[w].max_capacity

-----------------------------------------------------------------------------
(* Refunds, checked under SpecWallet                                       *)

\* C27: a valid refund for an existing user succeeds and raises the user's
\* wallet_balance by its amount, as a credit does
C27_RefundAddsToBalance ==
  [][\A u \in 1..Len(profiles), a \in TxAmounts :
       (AddWalletTransaction(u, a, "refund") /\ a[1] = "num" /\ a[2] > 0) =>
         /\ response'.status = 200
         /\ profiles'[u].wallet_balance = profiles[u].wallet_balance + a[2]
    ]_vars

-----------------------------------------------------------------------------
(* SpecWalletCancel: bookings paid partly or wholly from the wallet are    *)
(* created and cancelled                                                   *)

MaxRefundBookings == 2     \* bookings created in one behaviour

RefundBodies ==
  {[Body(1, 1, t, "273001") EXCEPT !.wallet_amount = w] :
     t \in {"morning", "evening"}, w \in {Num(0), Num(20), Num(100)}}

InitWalletCancel ==
  /\ profiles = <<Customer("9000000001", TRUE, 120)>>
  /\ bookings = <<>>
  /\ slots = <<SlotDoc(1, 1, "09:00-12:00", 2)>>
  /\ promos = <<>>
  /\ walletTx = <<>>
  /\ otps = [p \in Phones |-> NoOtp]
  /\ areas = {}
  /\ now = 0
  /\ response = NoResponse
  /\ outbox = <<>>
  /\ inflight = <<>>

CreateInWalletCancel ==
  \E body \in RefundBodies : Len(bookings) < MaxRefundBookings /\ CreateBooking(body)
CancelInWalletCancel ==
  \E id \in 1..Len(bookings), by \in {"", "admin"} : Cancel(id, "", by)

NextWalletCancel == CreateInWalletCancel \/ CancelInWalletCancel

SpecWalletCancel == InitWalletCancel /\ [][NextWalletCancel]_vars

\* C28: a successful cancel of a booking created with wallet_amount > 0
\* raises the customer's wallet_balance by wallet_amount and records one
\* wallet transaction of that amount for the customer and the booking
C28_CancelReleasesWalletAmount ==
  [][\A id \in 1..Len(bookings), by \in {"", "admin"} :
       ( /\ Cancel(id, "", by)
         /\ response'.status = 200
         /\ bookings[id].wallet_amount > 0 ) =>
         /\ profiles'[bookings[id].customer_id].wallet_balance
              = profiles[bookings[id].customer_id].wallet_balance + bookings[id].wallet_amount
         /\ Len(walletTx') = Len(walletTx) + 1
         /\ walletTx'[Len(walletTx')].user_id = bookings[id].customer_id
         /\ walletTx'[Len(walletTx')].amount = bookings[id].wallet_amount
         /\ walletTx'[Len(walletTx')].booking_id = id
    ]_vars

-----------------------------------------------------------------------------
(* POST /auth/register                                                     *)

\* bcrypt.hash(password): a non-empty string
hashPassword(password) == <<"bcrypt", password>>

\* Profile.create({phone, role: 'customer', password_hash, phone_verified: true})
RegisteredProfile(phone, password) ==
  [NewProfile(phone, "customer") EXCEPT !.password_hash = hashPassword(password)]

\* the registering email is new to the store, so Profile.findOne({$or: [{phone},
\* {email}]}) is a lookup by phone
Register(phone, password) ==
  LET p == FindProfileByPhone(phone) IN
  IF p = 0
  THEN /\ profiles' = Append(profiles, RegisteredProfile(phone, password))
       /\ inflight' = inflight
       /\ response' = Resp("register", Len(profiles) + 1, 201, "ok")
       /\ outbox' = <<>>
       /\ UNCHANGED <<bookings, slots, promos, walletTx, otps, areas, now>>
  ELSE IF profiles[p].password_hash = ""
  THEN /\ profiles' = [profiles EXCEPT ![p].password_hash = hashPassword(password),
                                       ![p].phone_verified = TRUE]
       /\ inflight' = inflight
       /\ response' = Resp("register", p, 201, "ok")
       /\ outbox' = <<>>
       /\ UNCHANGED <<bookings, slots, promos, walletTx, otps, areas, now>>
  ELSE /\ inflight' = inflight
       /\ response' = Resp("register", 0, 400, "account_exists")
       /\ outbox' = <<>>
       /\ UNCHANGED <<profiles, bookings, slots, promos, walletTx, otps, areas, now>>

-----------------------------------------------------------------------------
(* SpecSignup: the ways a profile comes to have a verified phone, followed *)
(* by create-booking                                                       *)

MaxSignupBookings == 1     \* bookings created in one behaviour

SignupBodies == {Body(c, 1, "morning", "273001") : c \in {1, 2}}

InitSignup ==
  /\ profiles \in {<<>>, <<Customer("9000000001", FALSE, 0)>>}
  /\ bookings = <<>>
  /\ slots = <<>>
  /\ promos = <<>>
  /\ walletTx = <<>>
  /\ otps = [p \in Phones |-> NoOtp]
  /\ areas = {}
  /\ now = 0
  /\ response = NoResponse
  /\ outbox = <<>>
  /\ inflight = <<>>

RequestInSignup ==
  \E phone \in Phones, delivered \in BOOLEAN : RequestOtp(phone, "123456", delivered)
VerifyInSignup ==
  \E phone \in Phones, code \in {"123456", "1234"} : VerifyOtp(phone, code, "customer")
RegisterInSignup == \E phone \in Phones : Register(phone, "secret1")
CreateInSignup ==
  \E body \in SignupBodies : Len(bookings) < MaxSignupBookings /\ CreateBooking(body)

NextSignup ==
  \/ RequestInSignup
  \/ VerifyInSignup
  \/ RegisterInSignup
  \/ CreateInSignup

SpecSignup == InitSignup /\ [][NextSignup]_vars

\* C29: a profile's phone_verified becomes true, on a new profile or an
\* existing one, only in a step that is a successful OTP verification for
\* that profile's phone
C29_VerifiedOnlyByOtp ==
  [][\A p \in 1..Len(profiles') :
       ( /\ profiles'[p].phone_verified
         /\ (p > Len(profiles) \/ ~profiles[p].phone_verified) ) =>
         /\ response'.op = "verify_otp" /\ response'.status = 200 /\ response'.id = p
         /\ otps[profiles'[p].phone].present
    ]_vars


-----------------------------------------------------------------------------
(* SpecDispatch: request-otp, verify-otp and the lifecycle transitions,    *)
(* every dispatch either delivered or failed                               *)

MaxDispatchBookings == 1   \* bookings created in one behaviour

DispatchCodes == {"123456", "654321"}

InitDispatch ==
  /\ profiles = <<Customer("9000000001", TRUE, 0), Worker("9000000003", "273001", 2)>>
  /\ bookings = <<>>
  /\ slots = <<>>
  /\ promos = <<>>
  /\ walletTx = <<>>
  /\ otps = [p \in Phones |-> NoOtp]
  /\ areas = {}
  /\ now = 0
  /\ response = NoResponse
  /\ outbox = <<>>
  /\ inflight = <<>>

RequestInDispatch ==
  \E delivered \in BOOLEAN : RequestOtp("9000000001", "123456", delivered)
VerifyInDispatch ==
  \E code \in DispatchCodes : VerifyOtp("9000000001", code, "customer")
CreateInDispatch == Len(bookings) < MaxDispatchBookings /\ CreateBooking(LifeBody)
\* the admin assigns a booking that waits for a worker
AssignInDispatch ==
  \E id \in 1..Len(bookings) :
    bookings[id].status \in {"pending", "confirmed"} /\ Assign(id, 2)
AcceptInDispatch == \E id \in 1..Len(bookings) : Accept(id)
MarkReachedInDispatch == \E id \in 1..Len(bookings) : MarkReached(id)
StartWorkInDispatch == \E id \in 1..Len(bookings) : StartWork(id)
CompleteInDispatch == \E id \in 1..Len(bookings) : Complete(id)

NextDispatch ==
  \/ RequestInDispatch
  \/ VerifyInDispatch
  \/ CreateInDispatch
  \/ AssignInDispatch
  \/ AcceptInDispatch
  \/ MarkReachedInDispatch
  \/ StartWorkInDispatch
  \/ CompleteInDispatch

SpecDispatch == InitDispatch /\ [][NextDispatch]_vars

\* the challenge stored for the phone passes every check verify-otp makes
\* when the code is submitted
Verifiable(phone, code) ==
  /\ otps'[phone].present
  /\ otps'[phone].expires_at >= now'
  /\ otps'[phone].attempts < 5
  /\ otps'[phone].code_hash = hashCode(code)

\* the step answers the transition with success and leaves the booking in
\* the status the transition commits, stamped with the time of the request
Committed(op, id, status, at) ==
  /\ response' = Resp(op, id, 200, "ok")
  /\ bookings'[id].status = status
  /\ at = now
  /\ \A j \in 1..Len(bookings) : j # id => bookings'[j] = bookings[j]
  /\ UNCHANGED <<slots, promos, walletTx, otps>>

\* C30: whether the dispatch succeeds or fails, a request-otp that is not
\* rate limited answers success and stores a challenge the submitted code
\* verifies against, and assign, accept, mark-reached, start-work and
\* complete on a booking they accept answer success and commit the status of
\* the transition
C30_DispatchOutcomeIrrelevant ==
  [][ /\ \A code \in DispatchCodes, delivered \in BOOLEAN :
           ( /\ RequestOtp("9000000001", code, delivered)
             /\ ~otpRateLimited(otps["9000000001"]) ) =>
             /\ response'.status = 200
             /\ Verifiable("9000000001", code)
             /\ UNCHANGED <<profiles, bookings, slots, promos, walletTx>>
      /\ \A id \in 1..Len(bookings) :
           /\ Assign(id, 2) =>
                /\ Committed("assign", id, "assigned", bookings'[id].assigned_at)
                /\ bookings'[id].employee_id = 2
           /\ (Accept(id) /\ ~workflowBlocked(bookings[id].status)) =>
                Committed("accept", id, "accepted", bookings'[id].accepted_at)
           /\ (MarkReached(id) /\ ~workflowBlocked(bookings[id].status)) =>
                Committed("mark_reached", id, "reached", bookings'[id].reached_at)
           /\ (StartWork(id) /\ ~workflowBlocked(bookings[id].status)) =>
                Committed("start_work", id, "in_progress", bookings'[id].started_at)
           /\ (Complete(id) /\ bookings[id].status # "cancelled") =>
                Committed("complete", id, "completed", bookings'[id].completed_at)
    ]_vars

\* a transition answered with success although its notification failed,
\* while a challenge whose dispatch may have failed is stored
C30_UndeliveredTransition ==
  /\ response.op = "complete" /\ response.status = 200
  /\ outbox # <<>> /\ ~outbox[1].delivered
  /\ bookings[response.id].status = "completed"
  /\ otps["9000000001"].present

====
